---- MODULE Spec2Model ----
(***************************************************************************)
(* A model of the MLS gateway extension of rust-nostr-relay:               *)
(*   - the KeyPackage lifecycle (kind 443 ingest, consumption, expired     *)
(*     sweep, last-resort timer) over the Firestore backend,               *)
(*   - the roster/policy log (kind 450) and the group registry,            *)
(*   - the NIP-KR rotation store (service-request / service-ack).          *)
(* Every storage call of the code is an await point, so every storage call *)
(* is one step of the task that makes it; tasks interleave freely.         *)
(***************************************************************************)
EXTENDS Integers, Sequences, FiniteSets, Bags, TLC

\* ------------------------------------------------------------------ bounds
NumOwners == 1          \* pubkeys that upload keypackages
NumKpPerOwner == 3      \* distinct kind-443 events per pubkey
MaxTime == 1            \* the clock runs 0..MaxTime
MaxTasks == 2           \* tasks alive at the same time (keypackage side)
KeypackageTtl == 3      \* config.keypackage_ttl, in clock units (beyond MaxTime)
SmallQuota == 2               \* a configured max_keypackages_per_user that three uploads exceed

\* ------------------------------------------------- program constants (443)
LastResortDelay == 1            \* Duration::minutes(10): the clock unit is 10 minutes
MinCountForDeletion == 3        \* process_pending_deletion: keypackage_count < 3
MaxKeypackagesPerUser == 10     \* config.max_keypackages_per_user default

\* Absent values (Option::None), one per type.
NoId == <<0, 0>>
NoOwner == 0
NoExp == 0 - 1
None == "none"

Owners == 1..NumOwners
\* A Nostr event id is a hash over the event, its pubkey included: an id
\* belongs to one author.
KpIds == Owners \X (1..NumKpPerOwner)

\* What an owner's earlier uploads can have left in the store: some of the
\* owner's keypackages, each with an exp tag of 1 or with the default ttl.
HeldStores ==
    {st \in SUBSET {[event_id |-> id, owner_pubkey |-> id[1], created_at |-> 0,
                      expires_at |-> e] : id \in KpIds, e \in {1, KeypackageTtl}} :
        /\ st # {}
        /\ \A d \in st, e \in st : d.event_id = e.event_id => d = e}

\* The database outlives the process: a gateway can start with an owner who
\* already holds a keypackage, stored by an earlier run and not expired.
HeldId == <<1, 0>>

VARIABLES
    \* the keypackage lifecycle
    now,                    \* Utc::now(), in clock units
    mls_keypackages,        \* collection "mls_keypackages": set of KeyPackageDoc
    mls_pending_deletions,  \* collection "mls_pending_deletions", document id = user_pubkey
    tasks,                  \* the bag of the spawned tasks that have not returned
    last,                   \* what the step just taken returned, when a call returned in it
    ever_stored,            \* history: the ids of the keypackages ever stored
    max_keypackages_per_user, \* config.max_keypackages_per_user.unwrap_or(10)
    \* the roster/policy log and the group registry
    backend,                \* the StorageBackend variant the relay was built with
    mls_groups,             \* the group's document (row) in "mls_groups"
    roster_policy,          \* collection (table) of the roster/policy entries
    rtasks,                 \* the bag of the handler tasks that have not returned
    rlast,                  \* what the step just taken returned, when a handler returned in it
    persisted,              \* history: the sequences of the entries, in the order stored
    applied,                \* history: the sequences of the events, in the order applied
    group_doc,              \* the group's document (row) with the fields upsert_group writes
    \* the message archive
    archived_events,        \* collection "archived_events", document id = "{kind}-{id}"
    alast,                  \* what the archive call just made returned
    \* the gateway's message dispatch
    top_level_444_dropped,  \* counter mls_gateway_top_level_444_dropped
    mlast,                  \* what message() just returned, and the handler it spawned
    \* the keypackage query rate limiter (KeyPackageRateLimiter)
    rl_now,                 \* Utc::now() of the limiter, in ticks
    rl_calls,               \* the bag of the calls that read the clock and wait for the lock
    queries,                \* queries: (requester, author) -> Vec of timestamps
    admitted,               \* history: the times of the queries admitted, per pair
    qlast,                  \* what check_rate_limit just returned
    \* the pure helpers: the MAC input and the keypackage content codec
    mac,                    \* two (client_id, version_id, secret) triples, their canonical inputs and tags
    enc,                    \* a keypackage payload on its way from the event to the store and back
    \* the NIP-KR rotation store (InMemoryInner) and its tasks
    versions,               \* versions: (client_id, version_id) -> SecretVersionRecord
    rotations,              \* rotations: rotation_id -> RotationRecord
    current_version,        \* current_version: client_id -> version_id
    previous_version,       \* previous_version: client_id -> version_id
    ktasks,                 \* the bag of the spawned store tasks that have not returned
    next_version            \* the version ids (UUID v4) drawn so far, plus one

kpvars ==
    <<now, mls_keypackages, mls_pending_deletions, tasks, last, ever_stored,
      max_keypackages_per_user>>
rostervars ==
    <<backend, mls_groups, roster_policy, rtasks, rlast, persisted, applied, group_doc>>
archivevars == <<archived_events, alast>>
krvars == <<versions, rotations, current_version, previous_version, ktasks, next_version>>
dispatchvars == <<top_level_444_dropped, mlast>>
ratevars == <<rl_now, rl_calls, queries, admitted, qlast>>
purevars == <<mac, enc>>
vars == <<kpvars, rostervars, archivevars, krvars, dispatchvars, ratevars, purevars>>

\* ----------------------------------------------------------------- storage

\* KeyPackageDoc (event_id, owner_pubkey, created_at, expires_at); the content,
\* ciphersuite, extensions and relays fields are never read by the lifecycle.
KeyPackageDoc(id, created, expires) ==
    [event_id |-> id, owner_pubkey |-> id[1], created_at |-> created, expires_at |-> expires]

DocsOf(owner) == {d \in mls_keypackages : d.owner_pubkey = owner}

StoredIds == {d.event_id : d \in mls_keypackages}

\* .filter(owner_pubkey == owner).filter(expires_at > now): docs.len()
count_user_keypackages(owner) ==
    Cardinality({d \in DocsOf(owner) : d.expires_at > now})

\* .filter(event_id == id).limit(1): !docs.is_empty()
keypackage_exists(id) == id \in StoredIds

\* .delete().document_id(id): deleting a missing document succeeds
DeleteDoc(kps, id) == {d \in kps : d.event_id # id}

\* query_keypackages(authors=[owner], limit=1, "created_at_asc"): the ids that
\* can come first; no expiry filter. Empty when the owner has no document.
OldestIds(owner) ==
    {d.event_id : d \in {e \in DocsOf(owner) :
                          \A f \in DocsOf(owner) : e.created_at <= f.created_at}}

\* .filter(expires_at <= now) of both cleanup_expired_keypackages
ExpiredIds == {d.event_id : d \in {e \in mls_keypackages : e.expires_at <= now}}

\* ------------------------------------------------------------------- tasks
\* A task: what it runs, where it is, and the locals it still reads: the event
\* (id, exp tag; its author is id[1]), should_start_timer, the old keypackage id,
\* the end of the sleep, the expired documents still to delete (snap) and, of
\* them, the ones the trait's sweep is deleting for the owner at hand (del). The tasks
\* alive form a bag: the runtime does not tell two equal tasks apart.
Idle ==
    [kind |-> "idle", pc |-> "done", id |-> NoId, exp |-> NoExp, timer |-> FALSE,
     old |-> NoId, wake |-> 0, snap |-> {}, del |-> {}]

Task(kind, pc, id) == [Idle EXCEPT !.kind = kind, !.pc = pc, !.id = id]

\* No call returned in the step just taken.
NoReturn == [kind |-> "idle", id |-> NoId, result |-> None]

\* There is room for one more task.
Free == BagCardinality(tasks) < MaxTasks

Running(kind, pc) == {t \in BagToSet(tasks) : t.kind = kind /\ t.pc = pc}

\* What is kept of a call that returned: delete_consumed_keypackage(id) returns
\* a bool to its caller; the spawned handlers return to nobody (an Err is
\* logged) and the cleanup's count is only logged: of them the outcome only.
Returned(t, res) ==
    [kind |-> t.kind, id |-> IF t.kind = "consume" THEN t.id ELSE NoId, result |-> res]

\* A task starts as t. (No step of the keypackage side touches the other two sides.)
Starts(t) ==
    /\ tasks' = tasks (+) SetToBag({t})
    /\ last' = NoReturn
    /\ UNCHANGED <<max_keypackages_per_user, rostervars, archivevars, krvars, dispatchvars, ratevars, purevars>>

\* A call returns res at once.
StartsAndReturns(t, res) ==
    /\ UNCHANGED tasks
    /\ last' = Returned(t, res)
    /\ UNCHANGED <<max_keypackages_per_user, rostervars, archivevars, krvars, dispatchvars, ratevars, purevars>>

\* Task t steps to u and goes on.
Goes(t, u) ==
    /\ tasks' = (tasks (-) SetToBag({t})) (+) SetToBag({u})
    /\ last' = NoReturn
    /\ UNCHANGED <<max_keypackages_per_user, rostervars, archivevars, krvars, dispatchvars, ratevars, purevars>>

\* Task t returns res.
Returns(t, res) ==
    /\ tasks' = tasks (-) SetToBag({t})
    /\ last' = Returned(t, res)
    /\ UNCHANGED <<max_keypackages_per_user, rostervars, archivevars, krvars, dispatchvars, ratevars, purevars>>

\* The clock advances.
Tick ==
    /\ now < MaxTime
    /\ now' = now + 1
    /\ last' = NoReturn
    /\ UNCHANGED <<mls_keypackages, mls_pending_deletions, tasks, ever_stored>>
    /\ UNCHANGED <<max_keypackages_per_user, rostervars, archivevars, krvars, dispatchvars, ratevars, purevars>>

\* ------------------------------------------------ kind 443: handle_keypackage

\* if let Some(owner) = &owner_tag { if owner != &event_pubkey { return Err } }
\* (the variant does not look at the tag)
OwnerVerifiedAny(ptag, author) == TRUE
OwnerVerified(ptag, author) == ptag = NoOwner \/ ptag = author

\* if exp_timestamp <= now { return Err("KeyPackage has expired") }
ExpTagExpired(exp) == exp # NoExp /\ exp <= now

\* if current_count >= max_keypackages { return Err }
QuotaExceeded(count) == count >= max_keypackages_per_user

\* let should_start_timer = current_count == 1;
ShouldStartTimer(count) == count = 1

\* expiry.unwrap_or_else(|| now + keypackage_ttl)
ExpiresAt(exp) == IF exp = NoExp THEN now + KeypackageTtl ELSE exp

\* The exp tag of an upload: absent, or a time of the clock's range.
ExpTags == {NoExp} \cup (1..MaxTime)

\* The owner tag of an upload: absent, an uploader, or somebody else.
OwnerTags == {NoOwner} \cup (1..(NumOwners + 1))

\* event.created_at(): the client's clock, taken to agree with the relay's.
CreatedAt == now

\* Event ids are opaque: an author's new events take the ids in order.
UploadIds ==
    {id \in KpIds : \A j \in 1..(id[2] - 1) :
        <<id[1], j>> \in ever_stored \cup {t.id : t \in BagToSet(tasks)}}

\* message() spawns the task; it validates the event and, as its first storage
\* call, reads the author's count.
HandleKeypackage(id, ptag, exp, is_hex) ==
    /\ Free
    /\ id \in UploadIds
    /\ LET t0 == [Task("upload", "store", id) EXCEPT !.exp = exp]
           c  == count_user_keypackages(id[1])
       IN IF ~OwnerVerified(ptag, id[1]) THEN StartsAndReturns(t0, "owner_mismatch")
          ELSE IF ExpTagExpired(exp) THEN StartsAndReturns(t0, "expired")
          ELSE IF ~is_hex THEN StartsAndReturns(t0, "invalid_content")
          ELSE IF QuotaExceeded(c) THEN StartsAndReturns(t0, "quota_exceeded")
          ELSE Starts([t0 EXCEPT !.timer = ShouldStartTimer(c),
                                 !.pc = IF ShouldStartTimer(c) THEN "query_oldest" ELSE "store"])
    /\ UNCHANGED <<now, mls_keypackages, mls_pending_deletions, ever_stored>>

\* store.query_keypackages(Some(&[pubkey]), None, Some(1), Some("created_at_asc"))
HkQueryOldest(t) ==
    /\ t \in Running("upload", "query_oldest")
    /\ \E o \in (IF OldestIds(t.id[1]) = {} THEN {NoId} ELSE OldestIds(t.id[1])) :
          Goes(t, [t EXCEPT !.old = o, !.pc = "store"])
    /\ UNCHANGED <<now, mls_keypackages, mls_pending_deletions, ever_stored>>

\* store.store_keypackage(...): insert().document_id(event_id) fails when the
\* document exists. On success the last-resort transition is spawned when
\* should_start_timer && oldest_keypackage_id.is_some().
HkStore(t) ==
    /\ t \in Running("upload", "store")
    /\ IF keypackage_exists(t.id)
       THEN /\ Returns(t, "store_failed")
            /\ UNCHANGED <<mls_keypackages, ever_stored>>
       ELSE /\ mls_keypackages' = mls_keypackages \cup
                  {KeyPackageDoc(t.id, CreatedAt, ExpiresAt(t.exp))}
            /\ ever_stored' = ever_stored \cup {t.id}
            /\ IF t.timer /\ t.old # NoId
               THEN Goes(t, [t EXCEPT !.pc = "transition", !.exp = NoExp])
               ELSE Returns(t, "stored")
    /\ UNCHANGED <<now, mls_pending_deletions>>

\* ------------------------------------- handle_last_resort_transition (spawned)

\* .filter(user_pubkey == owner).limit(1): at most one document per owner
get_pending_deletion(owner) == {p \in mls_pending_deletions : p.user_pubkey = owner}

PendingDeletion(owner, old, new) ==
    [user_pubkey |-> owner, old_keypackage_id |-> old,
     new_keypackages_collected |-> <<new>>,
     timer_started_at |-> now, deletion_scheduled_at |-> now + LastResortDelay]

\* insert().into("mls_pending_deletions").document_id(user_pubkey): the insert
\* fails when the owner's document exists (the variant writes another)
CreatePendingAlways(pendings, owner) == FALSE
CreatePendingFails(pendings, owner) == \E p \in pendings : p.user_pubkey = owner

\* store.create_pending_deletion(&pending): insert().document_id(user_pubkey)
\* fails when the owner has a record; then no timer task is spawned. Otherwise
\* the timer task sleeps 600 s; of the event it keeps the author.
LrCreatePending(t) ==
    /\ t \in Running("upload", "transition")
    /\ IF CreatePendingFails(mls_pending_deletions, t.id[1])
       THEN /\ Returns(t, "pending_exists")
            /\ UNCHANGED mls_pending_deletions
       ELSE /\ mls_pending_deletions' = mls_pending_deletions \cup
                  {PendingDeletion(t.id[1], t.old, t.id)}
            /\ Goes(t, [Task("timer", "sleep", <<t.id[1], 0>>)
                           EXCEPT !.wake = now + LastResortDelay])
    /\ UNCHANGED <<now, mls_keypackages, ever_stored>>

\* ------------------------------------------------- process_pending_deletion

\* if keypackage_count < 3 { cancel }
\* (the variants: the bound is one off, either way)
NotEnoughKeypackagesInclusive(count) == count <= MinCountForDeletion
NotEnoughKeypackagesBelow(count) == count < MinCountForDeletion - 1
NotEnoughKeypackages(count) == count < MinCountForDeletion

\* The sleep is over; get_pending_deletion; a missing record or one that is not
\* yet due ends the task.
PpdGet(t) ==
    /\ t \in Running("timer", "sleep")
    /\ now >= t.wake
    /\ LET ps == get_pending_deletion(t.id[1])
       IN IF ps = {} THEN Returns(t, "no_pending")
          ELSE LET p == CHOOSE q \in ps : TRUE IN
               IF p.deletion_scheduled_at > now THEN Returns(t, "not_due")
               ELSE Goes(t, [t EXCEPT !.old = p.old_keypackage_id, !.wake = 0,
                                      !.pc = "ppd_count"])
    /\ UNCHANGED <<now, mls_keypackages, mls_pending_deletions, ever_stored>>

\* store.count_user_keypackages(&user_pubkey)
PpdCount(t) ==
    /\ t \in Running("timer", "ppd_count")
    /\ IF NotEnoughKeypackages(count_user_keypackages(t.id[1]))
       THEN Goes(t, [t EXCEPT !.pc = "ppd_cancel", !.old = NoId])
       ELSE Goes(t, [t EXCEPT !.pc = "ppd_exists"])
    /\ UNCHANGED <<now, mls_keypackages, mls_pending_deletions, ever_stored>>

\* store.keypackage_exists(&pending.old_keypackage_id)
PpdExists(t) ==
    /\ t \in Running("timer", "ppd_exists")
    /\ IF keypackage_exists(t.old)
       THEN Goes(t, [t EXCEPT !.pc = "ppd_delete"])
       ELSE Goes(t, [t EXCEPT !.pc = "ppd_gone", !.old = NoId])
    /\ UNCHANGED <<now, mls_keypackages, mls_pending_deletions, ever_stored>>

\* store.delete_keypackage_by_id(&pending.old_keypackage_id): no last-one check
PpdDelete(t) ==
    /\ t \in Running("timer", "ppd_delete")
    /\ mls_keypackages' = DeleteDoc(mls_keypackages, t.old)
    /\ Goes(t, [t EXCEPT !.pc = "ppd_deleted", !.old = NoId])
    /\ UNCHANGED <<now, mls_pending_deletions, ever_stored>>

\* (the variant of the call below: the outcome is logged, the record stays)
PpdDeletePendingKeeps(t) ==
    /\ t \in BagToSet(tasks)
    /\ t.kind = "timer"
    /\ t.pc \in {"ppd_cancel", "ppd_gone", "ppd_deleted"}
    /\ Returns(t, CASE t.pc = "ppd_cancel" -> "cancelled"
                    [] t.pc = "ppd_gone" -> "already_gone"
                    [] OTHER -> "deleted")
    /\ UNCHANGED <<now, mls_keypackages, mls_pending_deletions, ever_stored>>

\* store.delete_pending_deletion(&user_pubkey), the last call of each of the
\* three outcomes (cancelled, old keypackage gone, old keypackage deleted)
PpdDeletePending(t) ==
    /\ t \in BagToSet(tasks)
    /\ t.kind = "timer"
    /\ t.pc \in {"ppd_cancel", "ppd_gone", "ppd_deleted"}
    /\ mls_pending_deletions' =
          {p \in mls_pending_deletions : p.user_pubkey # t.id[1]}
    /\ Returns(t, CASE t.pc = "ppd_cancel" -> "cancelled"
                    [] t.pc = "ppd_gone" -> "already_gone"
                    [] OTHER -> "deleted")
    /\ UNCHANGED <<now, mls_keypackages, ever_stored>>

\* ------------------------------------- delete_consumed_keypackage (MlsStorage)

\* if count <= 1 { return Ok(false) }  -- preserve the last keypackage
\* (the variant lets the last one go)
LastRemainingNone(count) == count < 1
LastRemaining(count) == count <= 1

\* The call loads the document to find its owner; a missing document returns
\* Ok(false).
DeleteConsumedKeypackage(id) ==
    /\ Free
    /\ IF keypackage_exists(id)
       THEN Starts(Task("consume", "dc_count", id))
       ELSE StartsAndReturns(Task("consume", "dc_count", id), "not_found")
    /\ UNCHANGED <<now, mls_keypackages, mls_pending_deletions, ever_stored>>

\* self.count_user_keypackages(&kp.owner_pubkey)
DcCount(t) ==
    /\ t \in Running("consume", "dc_count")
    /\ IF LastRemaining(count_user_keypackages(t.id[1]))
       THEN Returns(t, "preserved")
       ELSE Goes(t, [t EXCEPT !.pc = "dc_delete"])
    /\ UNCHANGED <<now, mls_keypackages, mls_pending_deletions, ever_stored>>

\* .delete().from("mls_keypackages").document_id(event_id); return Ok(true)
DcDelete(t) ==
    /\ t \in Running("consume", "dc_delete")
    /\ mls_keypackages' = DeleteDoc(mls_keypackages, t.id)
    /\ Returns(t, "deleted")
    /\ UNCHANGED <<now, mls_pending_deletions, ever_stored>>

\* --------- FirestoreStorage::cleanup_expired_keypackages (the inherent method,
\* the one the hourly sweep and the cleanup command resolve to)

\* The query for the expired documents.
CleanupExpiredKeypackages ==
    /\ Free
    /\ IF ExpiredIds = {}
       THEN StartsAndReturns(Task("cleanup", "ce_delete", NoId), "cleaned")
       ELSE Starts([Task("cleanup", "ce_delete", NoId) EXCEPT !.snap = ExpiredIds])
    /\ UNCHANGED <<now, mls_keypackages, mls_pending_deletions, ever_stored>>

\* for doc in expired_docs { delete(kp.event_id) }: no last-one check
CeDelete(t) ==
    /\ t \in Running("cleanup", "ce_delete")
    /\ \E id \in t.snap :
         /\ mls_keypackages' = DeleteDoc(mls_keypackages, id)
         /\ IF t.snap = {id} THEN Returns(t, "cleaned")
            ELSE Goes(t, [t EXCEPT !.snap = @ \ {id}])
    /\ UNCHANGED <<now, mls_pending_deletions, ever_stored>>

\* --------- impl MlsStorage for FirestoreStorage: cleanup_expired_keypackages
\* (the trait's method: the expired documents grouped by owner, one owner at a
\* time)

\* The query for the expired documents; expired_by_owner is the snapshot, an
\* id's owner being id[1].
TraitCleanupExpiredKeypackages ==
    /\ Free
    /\ IF ExpiredIds = {}
       THEN StartsAndReturns(Task("sweep", "tc_count", NoId), "cleaned")
       ELSE Starts([Task("sweep", "tc_count", NoId) EXCEPT !.snap = ExpiredIds])
    /\ UNCHANGED <<now, mls_keypackages, mls_pending_deletions, ever_stored>>

\* total_count > expired_ids.len() ? expired_ids.len() : len.saturating_sub(1)
DeletableCount(total_count, expired_len) ==
    IF total_count > expired_len THEN expired_len
    ELSE IF expired_len = 0 THEN 0 ELSE expired_len - 1

\* for (owner_pubkey, expired_ids) in expired_by_owner: the count of the owner's
\* keypackages (count_user_keypackages: the ones not expired at its own
\* Utc::now()), and deletable_count; del is the first deletable_count ids of
\* expired_ids, which come in the order the query returned them.
TcCount(t, owner, del) ==
    /\ t \in Running("sweep", "tc_count")
    /\ LET expired_ids == {id \in t.snap : id[1] = owner}
           total_count == count_user_keypackages(owner)
           rest == t.snap \ expired_ids
       IN  /\ expired_ids # {}
           /\ del \subseteq expired_ids
           /\ Cardinality(del) = DeletableCount(total_count, Cardinality(expired_ids))
           /\ IF del # {}
              THEN Goes(t, [t EXCEPT !.pc = "tc_delete", !.snap = rest, !.del = del])
              ELSE IF rest = {} THEN Returns(t, "cleaned")
              ELSE Goes(t, [t EXCEPT !.snap = rest])
    /\ UNCHANGED <<now, mls_keypackages, mls_pending_deletions, ever_stored>>

\* if i < deletable_count { delete(event_id) }, one document a step; after the
\* last one, the next owner.
TcDelete(t) ==
    /\ t \in Running("sweep", "tc_delete")
    /\ \E id \in t.del :
         /\ mls_keypackages' = DeleteDoc(mls_keypackages, id)
         /\ IF t.del # {id} THEN Goes(t, [t EXCEPT !.del = @ \ {id}])
            ELSE IF t.snap = {} THEN Returns(t, "cleaned")
            ELSE Goes(t, [t EXCEPT !.pc = "tc_count", !.del = {}])
    /\ UNCHANGED <<now, mls_pending_deletions, ever_stored>>

\* The trait's sweep over what earlier uploads left, while the clock runs.
NextSweep ==
    \/ Tick
    \/ TraitCleanupExpiredKeypackages
    \/ \E t \in BagToSet(tasks), owner \in Owners, del \in SUBSET KpIds : TcCount(t, owner, del)
    \/ \E t \in BagToSet(tasks) : TcDelete(t)

\* C36: for an owner with expired keypackages the trait's sweep deletes all of
\* them when the owner holds more keypackages than the expired ones (holds one
\* that is not expired), and all but one of them otherwise.
C36_SweepAllOrAllButOne ==
    [][\A t \in Running("sweep", "tc_count"), owner \in Owners, del \in SUBSET KpIds :
          TcCount(t, owner, del) =>
             LET expired_ids == {id \in t.snap : id[1] = owner}
                 total == Cardinality(DocsOf(owner))
             IN  Cardinality(del) = IF total > Cardinality(expired_ids)
                                    THEN Cardinality(expired_ids)
                                    ELSE Cardinality(expired_ids) - 1]_kpvars

\* ------------------------------------------------------ keypackage lifecycle
Tasks == BagToSet(tasks)

NextKP ==
    \/ Tick
    \/ \E id \in KpIds, ptag \in OwnerTags, exp \in ExpTags, is_hex \in BOOLEAN :
          HandleKeypackage(id, ptag, exp, is_hex)
    \/ \E t \in Tasks : HkQueryOldest(t)
    \/ \E t \in Tasks : HkStore(t)
    \/ \E t \in Tasks : LrCreatePending(t)
    \/ \E t \in Tasks : PpdGet(t)
    \/ \E t \in Tasks : PpdCount(t)
    \/ \E t \in Tasks : PpdExists(t)
    \/ \E t \in Tasks : PpdDelete(t)
    \/ \E t \in Tasks : PpdDeletePending(t)
    \/ \E id \in KpIds : DeleteConsumedKeypackage(id)
    \/ \E t \in Tasks : DcCount(t)
    \/ \E t \in Tasks : DcDelete(t)
    \/ CleanupExpiredKeypackages
    \/ \E t \in Tasks : CeDelete(t)

\* Uploads, last-resort timers and delete_consumed_keypackage calls, with no
\* sweep: the only deletes are the timer's and the consumers'.
NextTimerRace ==
    \/ Tick
    \/ \E id \in KpIds, ptag \in OwnerTags, exp \in ExpTags, is_hex \in BOOLEAN :
          HandleKeypackage(id, ptag, exp, is_hex)
    \/ \E t \in Tasks : HkQueryOldest(t)
    \/ \E t \in Tasks : HkStore(t)
    \/ \E t \in Tasks : LrCreatePending(t)
    \/ \E t \in Tasks : PpdGet(t)
    \/ \E t \in Tasks : PpdCount(t)
    \/ \E t \in Tasks : PpdExists(t)
    \/ \E t \in Tasks : PpdDelete(t)
    \/ \E t \in Tasks : PpdDeletePending(t)
    \/ \E id \in KpIds : DeleteConsumedKeypackage(id)
    \/ \E t \in Tasks : DcCount(t)
    \/ \E t \in Tasks : DcDelete(t)

\* A timer of the owner that has made its count and has not yet returned.
TimerPastCount(owner) ==
    \E u \in Tasks : /\ u.kind = "timer" /\ u.id[1] = owner
                     /\ u.pc \in {"ppd_exists", "ppd_delete", "ppd_deleted"}

\* C37: the delete of a last-resort timer, and a delete of
\* delete_consumed_keypackage made while a timer of the same owner is between
\* its count and its return, leave the owner with a stored keypackage.
C37_TimerAndConsumeKeepOne ==
    [][\A t \in Tasks :
         (PpdDelete(t) \/ (DcDelete(t) /\ TimerPastCount(t.id[1])))
         => \E d \in mls_keypackages' : d.owner_pubkey = t.id[1]
      ]_kpvars

\* ------------------------------------------------------------ REQ (kind 443)

\* The kinds of a subscription's filters: none, text notes, keypackages, both.
FilterKinds == SUBSET {1, 443}

\* filters.iter().any(|f| f.kinds.iter().any(|&k| k == 443))
is_keypackage_query(kinds) == \E k \in kinds : k = 443

\* post_process_query_results(session_id, subscription, events): MlsGateway's
\* impl of Extension does not define it, so the trait's default runs:
\* PostProcessResult { events, consumed_events: vec![] }. The event goes to the
\* subscriber and no store call is made and no task is spawned. Of the call is
\* kept which event was delivered and whether the filters asked for kind 443.
PostProcessQueryResults(kinds, id) ==
    /\ id \in StoredIds
    /\ last' = [kind |-> "req", id |-> id,
                result |-> IF is_keypackage_query(kinds) THEN "delivered_443"
                                                         ELSE "delivered"]
    /\ UNCHANGED <<now, mls_keypackages, mls_pending_deletions, tasks, ever_stored>>
    /\ UNCHANGED <<max_keypackages_per_user, rostervars, archivevars, krvars, dispatchvars, ratevars, purevars>>

\* The keypackage lifecycle together with the subscriptions that read it.
NextKPReq ==
    \/ NextKP
    \/ \E kinds \in FilterKinds, id \in KpIds : PostProcessQueryResults(kinds, id)

\* ------------------------------------- process_keypackage_delivery (one event)

\* let total_count = storage.count_user_keypackages(author_pubkey); for the one
\* kind-443 event of the result set: would_be_last = total_count - 0 <= 1, and
\* then the event is not marked; otherwise delete_consumed_keypackage(event_id)
\* is called.
ProcessKeypackageDelivery(id) ==
    /\ Free
    /\ IF LastRemaining(count_user_keypackages(id[1]))
       THEN StartsAndReturns(Task("consume", "dc_lookup", id), "preserved")
       ELSE Starts(Task("consume", "dc_lookup", id))
    /\ UNCHANGED <<now, mls_keypackages, mls_pending_deletions, ever_stored>>

\* delete_consumed_keypackage, called by the delivery: the query for the
\* document; a missing document returns Ok(false).
DcLookup(t) ==
    /\ t \in Running("consume", "dc_lookup")
    /\ IF keypackage_exists(t.id)
       THEN Goes(t, [t EXCEPT !.pc = "dc_count"])
       ELSE Returns(t, "not_found")
    /\ UNCHANGED <<now, mls_keypackages, mls_pending_deletions, ever_stored>>

\* One kind-443 event, the owner's first, delivered over and over to a
\* requester while the clock runs; nothing else touches the store.
NextDeliver ==
    \/ Tick
    \/ \E id \in {<<1, 1>>} : ProcessKeypackageDelivery(id)
    \/ \E t \in Tasks : DcLookup(t)
    \/ \E t \in Tasks : DcCount(t)
    \/ \E t \in Tasks : DcDelete(t)

\* ------------------------------------------- properties of the keypackage side

\* C1: every owner for whom a keypackage was ever stored has
\* count_user_keypackages(owner) >= 1 at every point, whatever uploads,
\* consumptions, expired sweeps and last-resort timers have run.
C1_LastRemainingAlways ==
    \A id \in ever_stored : count_user_keypackages(id[1]) >= 1

\* C2: the step of delete_consumed_keypackage(id) that reads the owner's
\* non-expired count returns false and changes no document when the count is
\* <= 1 and otherwise goes on to the delete; the delete step removes that
\* keypackage's document and no other and returns true.
C2_DeleteConsumedKeypackage ==
    [][\A t \in Tasks :
         /\ DcCount(t) =>
              IF Cardinality({d \in mls_keypackages :
                     d.owner_pubkey = t.id[1] /\ d.expires_at > now}) <= 1
              THEN /\ last' = [kind |-> "consume", id |-> t.id, result |-> "preserved"]
                   /\ mls_keypackages' = mls_keypackages
              ELSE /\ last' = NoReturn
                   /\ mls_keypackages' = mls_keypackages
                   /\ BagIn([t EXCEPT !.pc = "dc_delete"], tasks')
         /\ DcDelete(t) =>
              /\ last' = [kind |-> "consume", id |-> t.id, result |-> "deleted"]
              /\ mls_keypackages' = {d \in mls_keypackages : d.event_id # t.id}
      ]_kpvars

\* The end of scenario S2: of KP1, KP2, KP3 only KP3 is left, not expired, and
\* consuming it has just returned false; the clock has not moved, so that
\* nothing expired and no timer fired: KP1 and KP2 were consumed.
C2_Witness ==
    /\ last = [kind |-> "consume", id |-> <<1, 3>>, result |-> "preserved"]
    /\ ever_stored = {<<1, 1>>, <<1, 2>>, <<1, 3>>}
    /\ StoredIds = {<<1, 3>>}
    /\ count_user_keypackages(1) = 1
    /\ now = 0

\* C3: when a delete_consumed_keypackage call deletes its keypackage right
\* after a call for another keypackage of the same owner, in flight with it,
\* deleted its own, the owner still has a keypackage stored.
C3_ConcurrentConsumeKeepsOne ==
    [][\A t \in Tasks :
         (/\ DcDelete(t)
          /\ last.kind = "consume" /\ last.result = "deleted"
          /\ last.id # t.id /\ last.id[1] = t.id[1])
         => \E d \in mls_keypackages' : d.owner_pubkey = t.id[1]
      ]_kpvars

\* C4: a delete of cleanup_expired_keypackages, as the hourly sweep and the
\* cleanup command run it, never takes an owner from at least one stored
\* keypackage to none.
C4_CleanupKeepsLast ==
    [][\A t \in Tasks : CeDelete(t) =>
         \A o \in Owners :
            (\E d \in mls_keypackages : d.owner_pubkey = o)
            => (\E d \in mls_keypackages' : d.owner_pubkey = o)
      ]_kpvars

\* C13: a timer that fired and reads a non-expired count >= 3 goes on to the
\* existence check; finding the old keypackage of the pending record, it goes on
\* to delete it; the delete removes that keypackage and no other; the last call
\* removes the owner's pending record and the task ends with the deletion done.
C13_TimerDeletesOld ==
    [][\A t \in Tasks :
         /\ (PpdCount(t) /\ count_user_keypackages(t.id[1]) >= MinCountForDeletion)
            => /\ BagIn([t EXCEPT !.pc = "ppd_exists"], tasks')
               /\ UNCHANGED <<mls_keypackages, mls_pending_deletions>>
         /\ (PpdExists(t) /\ t.old \in StoredIds)
            => /\ BagIn([t EXCEPT !.pc = "ppd_delete"], tasks')
               /\ UNCHANGED <<mls_keypackages, mls_pending_deletions>>
         /\ PpdDelete(t)
            => /\ mls_keypackages' = {d \in mls_keypackages : d.event_id # t.old}
               /\ UNCHANGED mls_pending_deletions
               /\ \E u \in BagToSet(tasks') : u.kind = "timer" /\ u.pc = "ppd_deleted"
         /\ (PpdDeletePending(t) /\ t.pc = "ppd_deleted")
            => /\ \A q \in mls_pending_deletions' : q.user_pubkey # t.id[1]
               /\ UNCHANGED mls_keypackages
               /\ last' = [kind |-> "timer", id |-> NoId, result |-> "deleted"]
      ]_kpvars

\* The owner held one keypackage and uploaded three more before the timer was
\* due; the timer has just ended with the deletion done: the three uploads are
\* what is stored (count 3) and no pending record is left.
C13_Witness ==
    /\ last = [kind |-> "timer", id |-> NoId, result |-> "deleted"]
    /\ ever_stored = {HeldId, <<1, 1>>, <<1, 2>>, <<1, 3>>}
    /\ StoredIds = {<<1, 1>>, <<1, 2>>, <<1, 3>>}
    /\ count_user_keypackages(1) = 3
    /\ mls_pending_deletions = {}

\* C14: a timer that fired and reads a non-expired count below 3 cancels: it
\* goes straight to the removal of the pending record, which removes the
\* owner's record and ends the task; no keypackage is deleted in either step.
C14_TimerCancels ==
    [][\A t \in Tasks :
         /\ (PpdCount(t) /\ count_user_keypackages(t.id[1]) < MinCountForDeletion)
            => /\ BagIn([t EXCEPT !.pc = "ppd_cancel", !.old = NoId], tasks')
               /\ UNCHANGED <<mls_keypackages, mls_pending_deletions>>
         /\ (PpdDeletePending(t) /\ t.pc = "ppd_cancel")
            => /\ \A q \in mls_pending_deletions' : q.user_pubkey # t.id[1]
               /\ UNCHANGED mls_keypackages
               /\ BagCardinality(tasks') = BagCardinality(tasks) - 1
               /\ last' = [kind |-> "timer", id |-> NoId, result |-> "cancelled"]
      ]_kpvars

\* The owner had one keypackage and uploaded one more; the timer has just
\* cancelled (count 2): both keypackages are stored and no record is left.
C14_Witness ==
    /\ last = [kind |-> "timer", id |-> NoId, result |-> "cancelled"]
    /\ StoredIds = {<<1, 1>>, <<1, 2>>}
    /\ count_user_keypackages(1) = 2
    /\ mls_pending_deletions = {}

\* C15 (scenario S3): the owner held only KP1, uploaded KP2 (the pending record
\* names KP1 as old and KP2 as collected) and then KP3, for which no timer was
\* started; nothing was consumed, swept or expired and the timer is the only
\* task left. When it then reads the count it cancels: it goes to the removal
\* of the pending record without deleting KP1.
C15_ScenarioS3Cancels ==
    [][\A t \in Tasks :
         (/\ PpdCount(t)
          /\ tasks = SetToBag({t})
          /\ t.old = <<1, 1>>
          /\ ever_stored = {<<1, 1>>, <<1, 2>>, <<1, 3>>}
          /\ StoredIds = ever_stored
          /\ \A d \in mls_keypackages : d.expires_at > now
          /\ \E q \in mls_pending_deletions :
                /\ mls_pending_deletions = {q}
                /\ q.user_pubkey = 1
                /\ q.old_keypackage_id = <<1, 1>>
                /\ q.new_keypackages_collected = << <<1, 2>> >>)
         => /\ BagIn([t EXCEPT !.pc = "ppd_cancel", !.old = NoId], tasks')
            /\ UNCHANGED <<mls_keypackages, mls_pending_deletions>>
      ]_kpvars

\* C16: an ingest that stores its keypackage goes on to create the
\* pending deletion exactly when the owner's non-expired count right before
\* the store is 1, and the transition then creates the owner's record and
\* leaves a sleeping timer.
C16_TimerIffCountWasOne ==
    [][\A t \in Tasks :
         /\ (HkStore(t) /\ t.id \notin StoredIds)
            => ((count_user_keypackages(t.id[1]) = 1)
                <=> \E u \in BagToSet(tasks') : u.pc = "transition" /\ u.id = t.id)
         /\ LrCreatePending(t)
            => /\ \E q \in mls_pending_deletions' \ mls_pending_deletions :
                    q.user_pubkey = t.id[1]
               /\ \E u \in BagToSet(tasks') : u.kind = "timer" /\ u.pc = "sleep"
      ]_kpvars

\* C17: when the ingest of an owner with exactly one non-expired keypackage
\* looks up the keypackage that becomes the last resort, it finds that
\* keypackage; and the pending record the transition writes names the
\* keypackage the ingest found as old_keypackage_id, collects exactly the
\* uploaded id, and is due 10 minutes after timer_started_at.
C17_RecordNamesTheSingleKeypackage ==
    [][\A t \in Tasks :
         /\ (HkQueryOldest(t) /\ count_user_keypackages(t.id[1]) = 1)
            => \E u \in BagToSet(tasks') :
                  /\ u.id = t.id /\ u.pc = "store"
                  /\ u.old \in {d.event_id : d \in {e \in DocsOf(t.id[1]) : e.expires_at > now}}
         /\ (LrCreatePending(t) /\ mls_pending_deletions' # mls_pending_deletions)
            => \E q \in mls_pending_deletions' \ mls_pending_deletions :
                  /\ q.user_pubkey = t.id[1]
                  /\ q.old_keypackage_id = t.old
                  /\ q.new_keypackages_collected = <<t.id>>
                  /\ q.deletion_scheduled_at = q.timer_started_at + LastResortDelay
      ]_kpvars

\* C18: no owner ever has more than one pending-deletion record, concurrent
\* uploads by the same owner included.
C18_OnePendingPerOwner ==
    \A o \in Owners :
        Cardinality({p \in mls_pending_deletions : p.user_pubkey = o}) <= 1

\* Two uploads of an owner with one keypackage both read count 1 and both
\* reached the transition at different times; the first wrote the record, the
\* second's insert has just failed.
C18_Witness ==
    /\ last = [kind |-> "upload", id |-> NoId, result |-> "pending_exists"]
    /\ StoredIds = {<<1, 1>>, <<1, 2>>, <<1, 3>>}
    /\ Cardinality(mls_pending_deletions) = 1
    /\ now = 1

C20_DeliveryConsumes ==
    [][\A kinds \in FilterKinds, id \in KpIds :
         (PostProcessQueryResults(kinds, id) /\ is_keypackage_query(kinds))
         => \E u \in BagToSet(tasks') : u.kind = "consume" /\ u.id = id
      ]_kpvars

\* C21: when the same kind-443 event is delivered any number of times, one
\* after the other or at once, the store changes at most once: a step that
\* changes it removes that event's document and nothing else, adds nothing
\* (so the document cannot be removed again), and leaves the owner with at
\* least one stored keypackage.
C21_RepeatedDeliveryDeletesOnce ==
    [][(mls_keypackages' # mls_keypackages)
         => /\ mls_keypackages' = {d \in mls_keypackages : d.event_id # <<1, 1>>}
            /\ \E d \in mls_keypackages' : d.owner_pubkey = 1
      ]_kpvars

\* The first delivery has just deleted the keypackage, and a second delivery
\* of the same event, which read the count before that, is about to delete
\* again.
C21_Witness ==
    /\ last = [kind |-> "consume", id |-> <<1, 1>>, result |-> "deleted"]
    /\ \E t \in Tasks : t.kind = "consume" /\ t.pc = "dc_delete" /\ t.id = <<1, 1>>
    /\ StoredIds = {<<1, 2>>}

\* C22: the ingest of a kind-443 event whose p tag is present and differs from
\* the author ends at once with the owner verification failed: no keypackage
\* is stored, no pending deletion is created and nothing is left running.
C22_OwnerMismatchStoresNothing ==
    [][\/ /\ UNCHANGED <<mls_keypackages, mls_pending_deletions, tasks, ever_stored>>
          /\ last' = [kind |-> "upload", id |-> NoId, result |-> "owner_mismatch"]
       \/ \A id \in KpIds, exp \in ExpTags, is_hex \in BOOLEAN :
             \A ptag \in OwnerTags \ {NoOwner, id[1]} :
                ~HandleKeypackage(id, ptag, exp, is_hex)
      ]_kpvars

\* The owner has a keypackage, and an upload in the owner's name that carries
\* somebody else's p tag has just been refused.
C22_Witness ==
    /\ last = [kind |-> "upload", id |-> NoId, result |-> "owner_mismatch"]
    /\ StoredIds = {<<1, 1>>}
    /\ mls_pending_deletions = {}
    /\ tasks = EmptyBag

\* C23: an ingest that reads a non-expired count at or above the configured
\* maximum is refused with nothing stored, so that the owner never holds more
\* non-expired keypackages than the maximum, however the uploads interleave.
C23_QuotaNeverExceeded ==
    \A o \in Owners : count_user_keypackages(o) <= max_keypackages_per_user

\* ======================================================================
\* The roster/policy log (kind 450) and the group registry, for one group_id:
\* no call of these handlers reads another group's documents.

\* -------------------------------------------------------------- bounds (450)
NumPubkeys == 2         \* authors and members of roster events
MaxSeq == 2             \* seq tags run 1..MaxSeq
MaxRosterTasks == 2     \* handler tasks alive at the same time

NoSeq == 0 - 1
Pubkeys == 1..NumPubkeys
Seqs == 1..MaxSeq
Backends == {"firestore", "sql"}
Ops == {"add", "remove", "promote", "demote", "bootstrap", "replace"}

\* GroupInfo (owner_pubkey, admin_pubkeys); display_name, last_epoch,
\* service_member and the timestamps are not read by the roster handler.
NoGroup == [exists |-> FALSE, owner_pubkey |-> NoOwner, admin_pubkeys |-> {}]

GroupInfo(owner, admins) == [exists |-> TRUE, owner_pubkey |-> owner, admin_pubkeys |-> admins]

\* RosterPolicyDocument: document id "{group_id}_{sequence}"; operation,
\* member_pubkeys, admin_pubkey and the timestamps are written and never read.
RosterPolicyDocument(seq) == [sequence |-> seq]

\* .limit(1) on "mls_groups": !docs.is_empty()
group_exists == mls_groups.exists

\* group.map_or(false, |g| g.owner_pubkey == pubkey)
is_owner(pubkey) == mls_groups.exists /\ mls_groups.owner_pubkey = pubkey

\* group.map_or(false, |g| g.admin_pubkeys.iter().any(|p| p == pubkey))
is_admin(pubkey) == mls_groups.exists /\ pubkey \in mls_groups.admin_pubkeys

\* order_by(sequence desc).limit(1): the greatest stored sequence, if any
get_last_roster_sequence ==
    IF roster_policy = {} THEN NoSeq
    ELSE CHOOSE m \in {d.sequence : d \in roster_policy} :
            \A d \in roster_policy : d.sequence <= m

\* A handler task and the locals it still reads: the event's author, op and
\* seq, is_owner, the p tags, and the document or the admin list it built from
\* what it fetched.
RIdle ==
    [kind |-> "idle", pc |-> "done", author |-> NoOwner, op |-> None, seq |-> NoSeq,
     is_owner |-> FALSE, members |-> {}, group |-> NoGroup]

RFree == BagCardinality(rtasks) < MaxRosterTasks

RTasks == BagToSet(rtasks)

RRunning(pc) == {t \in RTasks : t.pc = pc}

\* No handler returned in the step just taken.
RNoReturn == [op |-> None, result |-> None]

\* What is kept of a handler that returned: its event's operation and the outcome.
RReturned(t, res) == [op |-> t.op, result |-> res]

\* (No step of the roster side touches the other two sides.)
RStarts(t) ==
    /\ rtasks' = rtasks (+) SetToBag({t})
    /\ rlast' = RNoReturn
    /\ UNCHANGED <<group_doc, kpvars, archivevars, krvars, dispatchvars, ratevars, purevars>>

RStartsAndReturns(t, res) ==
    /\ UNCHANGED rtasks
    /\ rlast' = RReturned(t, res)
    /\ UNCHANGED <<group_doc, kpvars, archivevars, krvars, dispatchvars, ratevars, purevars>>

RGoes(t, u) ==
    /\ rtasks' = (rtasks (-) SetToBag({t})) (+) SetToBag({u})
    /\ rlast' = RNoReturn
    /\ UNCHANGED <<group_doc, kpvars, archivevars, krvars, dispatchvars, ratevars, purevars>>

RReturns(t, res) ==
    /\ rtasks' = rtasks (-) SetToBag({t})
    /\ rlast' = RReturned(t, res)
    /\ UNCHANGED <<group_doc, kpvars, archivevars, krvars, dispatchvars, ratevars, purevars>>

\* The handler returned Ok(()): the event's operation is applied.
RApplied(t) ==
    /\ RReturns(t, "applied")
    /\ applied' = Append(applied, t.seq)

\* ------------------------------------------------- kind 450: handle_roster_policy
\* An event's tags are drawn when the handler reads them: op up front, seq
\* after the authorization, role and p after the entry is stored.

\* if !(is_owner || is_admin) { return Err("Unauthorized roster/policy event") }
\* (the variant lets anyone in)
AuthorizedAnyone(owner, admin) == TRUE
Authorized(owner, admin) == owner \/ admin

\* if sequence <= last_sequence { return Err }, of the handler and of the
\* Firestore store_roster_policy (the variant lets an equal sequence pass)
StaleSequenceBelow(seq, last_seq) == last_seq # NoSeq /\ seq < last_seq
StaleSequence(seq, last_seq) == last_seq # NoSeq /\ seq <= last_seq

\* insert().document_id("{group_id}_{sequence}") / PRIMARY KEY and
\* UNIQUE(group_id, sequence): the insert fails when the entry exists
\* (the variant overwrites)
InsertOverwrites(docs, seq) == FALSE
InsertFails(docs, seq) == \E d \in docs : d.sequence = seq

\* The seq tag is parsed and the operation validated after the authorization,
\* before the next storage call.
SeqAndOperation(op, seq) ==
    IF seq = NoSeq THEN "missing_seq"
    ELSE IF op \notin Ops THEN "invalid_op"
    ELSE "ok"

\* message() spawns the task; its first storage call is group_exists. For an
\* unknown group only bootstrap goes on.
HandleRosterPolicy(author, op, seq) ==
    /\ RFree
    /\ LET t == [RIdle EXCEPT !.kind = "roster", !.author = author, !.op = op] IN
       IF ~group_exists
       THEN IF op # "bootstrap" THEN RStartsAndReturns(t, "unknown_group")
            ELSE IF SeqAndOperation(op, seq) # "ok"
                 THEN RStartsAndReturns(t, SeqAndOperation(op, seq))
                 ELSE RStarts([t EXCEPT !.seq = seq, !.pc = "last_seq"])
       ELSE RStarts([t EXCEPT !.pc = "is_owner"])
    /\ UNCHANGED <<backend, mls_groups, roster_policy, persisted, applied>>

\* store.is_owner(&group_id, &event_pubkey)
RpIsOwner(t) ==
    /\ t \in RRunning("is_owner")
    /\ RGoes(t, [t EXCEPT !.is_owner = is_owner(t.author), !.pc = "is_admin"])
    /\ UNCHANGED <<backend, mls_groups, roster_policy, persisted, applied>>

\* store.is_admin(&group_id, &event_pubkey), and the decision
RpIsAdmin(t, seq) ==
    /\ t \in RRunning("is_admin")
    /\ IF ~Authorized(t.is_owner, is_admin(t.author)) THEN RReturns(t, "unauthorized")
       ELSE IF SeqAndOperation(t.op, seq) # "ok" THEN RReturns(t, SeqAndOperation(t.op, seq))
       ELSE RGoes(t, [t EXCEPT !.is_owner = FALSE, !.seq = seq, !.pc = "last_seq"])
    /\ UNCHANGED <<backend, mls_groups, roster_policy, persisted, applied>>

\* store.get_last_roster_sequence(&group_id), and the stale check. The SQL
\* store_roster_policy is the INSERT alone; the Firestore one checks again.
RpLastSeq(t) ==
    /\ t \in RRunning("last_seq")
    /\ IF StaleSequence(t.seq, get_last_roster_sequence) THEN RReturns(t, "stale")
       ELSE RGoes(t, [t EXCEPT !.pc = IF backend = "sql" THEN "insert" ELSE "store"])
    /\ UNCHANGED <<backend, mls_groups, roster_policy, persisted, applied>>

\* FirestoreStorage::store_roster_policy: self.get_last_roster_sequence(group_id)
\* and the check; the Err ends the handler (await?).
RpStoreCheck(t) ==
    /\ t \in RRunning("store")
    /\ IF StaleSequence(t.seq, get_last_roster_sequence) THEN RReturns(t, "invalid_sequence")
       ELSE RGoes(t, [t EXCEPT !.pc = "insert"])
    /\ UNCHANGED <<backend, mls_groups, roster_policy, persisted, applied>>

\* match operation.as_str(): the storage call the apply starts with, if any
ApplyStarts(op, role_admin, members) ==
    CASE op \in {"bootstrap", "add", "replace"} -> "upsert"
      [] op = "promote" /\ role_admin /\ members # {} -> "add_admins"
      [] op = "demote" /\ role_admin /\ members # {} -> "remove_admins"
      [] OTHER -> "done"

\* The insert of the entry; on success the event is accepted and its operation
\* is applied next. Of the locals the apply keeps those it reads.
RpInsert(t, role_admin, members) ==
    /\ t \in RRunning("insert")
    /\ IF InsertFails(roster_policy, t.seq)
       THEN /\ RReturns(t, "insert_failed")
            /\ UNCHANGED <<roster_policy, persisted, applied>>
       ELSE /\ roster_policy' = roster_policy \cup {RosterPolicyDocument(t.seq)}
            /\ persisted' = Append(persisted, t.seq)
            /\ LET next == ApplyStarts(t.op, role_admin, members) IN
               CASE next = "done" -> RApplied(t)
                 [] next = "upsert" -> RGoes(t, [t EXCEPT !.pc = next]) /\ UNCHANGED applied
                 [] OTHER -> /\ RGoes(t, [t EXCEPT !.pc = next, !.members = members,
                                                   !.author = NoOwner])
                             /\ UNCHANGED applied
    /\ UNCHANGED <<backend, mls_groups>>

\* ---------------------------------------------------------- the group registry

\* upsert_group keeps the owner and the admins of an existing group; a new group
\* gets the caller as owner and no admin.
UpsertedGroup(existing, creator) ==
    IF existing.exists THEN GroupInfo(existing.owner_pubkey, existing.admin_pubkeys)
    ELSE GroupInfo(creator, {})

\* What follows upsert_group: the bootstrap adds its author to the admins, add
\* and replace are applied, the kind-445 handler goes on to the delivery.
AfterUpsert(t) ==
    IF t.kind = "message" THEN RReturns(t, "updated") /\ UNCHANGED applied
    ELSE IF t.op = "bootstrap"
    THEN /\ RGoes(t, [t EXCEPT !.pc = "add_admins", !.members = {t.author},
                               !.group = NoGroup])
         /\ UNCHANGED applied
    ELSE RApplied(t)

\* FirestoreStorage::upsert_group: self.fetch_group(group_id), and the document
\* built from it; the creator is read again by the bootstrap only
FsUpsertFetch(t) ==
    /\ backend = "firestore"
    /\ t \in RRunning("upsert")
    /\ RGoes(t, [t EXCEPT !.group = UpsertedGroup(mls_groups, t.author),
                          !.author = IF t.op = "bootstrap" THEN @ ELSE NoOwner,
                          !.pc = "upsert_write"])
    /\ UNCHANGED <<backend, mls_groups, roster_policy, persisted, applied>>

\* FirestoreStorage::upsert_group: update() of the whole document
FsUpsertWrite(t) ==
    /\ t \in RRunning("upsert_write")
    /\ mls_groups' = t.group
    /\ AfterUpsert(t)
    /\ UNCHANGED <<backend, roster_policy, persisted>>

\* SqlStorage::upsert_group: INSERT ... ON CONFLICT (group_id) DO UPDATE, one
\* statement
SqlUpsertGroup(t) ==
    /\ backend = "sql"
    /\ t \in RRunning("upsert")
    /\ mls_groups' = UpsertedGroup(mls_groups, t.author)
    /\ AfterUpsert(t)
    /\ UNCHANGED <<backend, roster_policy, persisted>>

\* add_admins pushes the pubkeys missing from the list; remove_admins retains
\* the others.
AdminsWith(current, admins) == current \cup admins

AdminsWithout(current, admins) == current \ admins

\* FirestoreStorage::add_admins: self.fetch_group(group_id), and the list built
FsAddAdminsFetch(t) ==
    /\ backend = "firestore"
    /\ t \in RRunning("add_admins")
    /\ RGoes(t, [t EXCEPT !.group = [NoGroup EXCEPT !.admin_pubkeys =
                                        AdminsWith(mls_groups.admin_pubkeys, t.members)],
                          !.members = {}, !.pc = "admins_write"])
    /\ UNCHANGED <<backend, mls_groups, roster_policy, persisted, applied>>

\* FirestoreStorage::remove_admins: self.fetch_group(group_id), and the list built
FsRemoveAdminsFetch(t) ==
    /\ backend = "firestore"
    /\ t \in RRunning("remove_admins")
    /\ RGoes(t, [t EXCEPT !.group = [NoGroup EXCEPT !.admin_pubkeys =
                                        AdminsWithout(mls_groups.admin_pubkeys, t.members)],
                          !.members = {}, !.pc = "admins_write"])
    /\ UNCHANGED <<backend, mls_groups, roster_policy, persisted, applied>>

\* FirestoreStorage::add_admins / remove_admins: update() of the fields
\* admin_pubkeys and updated_at (AdminsPatch)
FsAdminsWrite(t) ==
    /\ t \in RRunning("admins_write")
    /\ mls_groups' = [mls_groups EXCEPT !.admin_pubkeys = t.group.admin_pubkeys]
    /\ RApplied(t)
    /\ UNCHANGED <<backend, roster_policy, persisted>>

\* SqlStorage::add_admins: SELECT ... FOR UPDATE and UPDATE in one transaction;
\* no row, no change
SqlAddAdmins(t) ==
    /\ backend = "sql"
    /\ t \in RRunning("add_admins")
    /\ mls_groups' = IF mls_groups.exists
                     THEN [mls_groups EXCEPT !.admin_pubkeys =
                              AdminsWith(mls_groups.admin_pubkeys, t.members)]
                     ELSE mls_groups
    /\ RApplied(t)
    /\ UNCHANGED <<backend, roster_policy, persisted>>

\* SqlStorage::remove_admins: likewise
SqlRemoveAdmins(t) ==
    /\ backend = "sql"
    /\ t \in RRunning("remove_admins")
    /\ mls_groups' = IF mls_groups.exists
                     THEN [mls_groups EXCEPT !.admin_pubkeys =
                              AdminsWithout(mls_groups.admin_pubkeys, t.members)]
                     ELSE mls_groups
    /\ RApplied(t)
    /\ UNCHANGED <<backend, roster_policy, persisted>>

\* ------------------------------- kind 445: handle_mls_group_message_static
\* The handler of a group message upserts the group with the sender as creator.
HandleGroupMessage(author) ==
    /\ RFree
    /\ RStarts([RIdle EXCEPT !.kind = "message", !.pc = "upsert", !.author = author])
    /\ UNCHANGED <<backend, mls_groups, roster_policy, persisted, applied>>

NextRoster ==
    \/ \E a \in Pubkeys, op \in Ops \cup {"other"}, seq \in Seqs \cup {NoSeq} :
          HandleRosterPolicy(a, op, seq)
    \/ \E t \in RTasks : RpIsOwner(t)
    \/ \E t \in RTasks, seq \in Seqs \cup {NoSeq} : RpIsAdmin(t, seq)
    \/ \E t \in RTasks : RpLastSeq(t)
    \/ \E t \in RTasks : RpStoreCheck(t)
    \/ \E t \in RTasks, role_admin \in BOOLEAN, members \in SUBSET Pubkeys :
          RpInsert(t, role_admin, members)
    \/ \E t \in RTasks : FsUpsertFetch(t)
    \/ \E t \in RTasks : FsUpsertWrite(t)
    \/ \E t \in RTasks : SqlUpsertGroup(t)
    \/ \E t \in RTasks : FsAddAdminsFetch(t)
    \/ \E t \in RTasks : FsRemoveAdminsFetch(t)
    \/ \E t \in RTasks : FsAdminsWrite(t)
    \/ \E t \in RTasks : SqlAddAdmins(t)
    \/ \E t \in RTasks : SqlRemoveAdmins(t)
    \/ \E a \in Pubkeys : HandleGroupMessage(a)

\* ----------------------------------------------- properties of the roster side

\* C5: of the kind-450 events of the group that carry the same seq, at most one
\* is accepted: no sequence is persisted twice and none is applied twice,
\* whether the handlers run one after the other or together.
C5_SameSeqAcceptedOnce ==
    /\ \A i, j \in DOMAIN persisted : i # j => persisted[i] # persisted[j]
    /\ \A i, j \in DOMAIN applied : i # j => applied[i] # applied[j]

\* Two handlers ran together with the same seq, both passed the sequence
\* checks, and the insert of the second has just failed.
C5_Witness ==
    /\ rlast.result = "insert_failed"
    /\ Len(persisted) >= 1

\* C6: accepted events are persisted in the order of their sequences and
\* applied in the order of their sequences.
C6_AcceptedInSequenceOrder ==
    /\ \A i, j \in DOMAIN persisted : i < j => persisted[i] < persisted[j]
    /\ \A i, j \in DOMAIN applied : i < j => applied[i] < applied[j]

\* C7: in the step that ends the apply of an accepted bootstrap (its add_admins
\* written), the event's author is the owner of the group and one of its admins.
C7_BootstrapAuthorOwns ==
    [][\A t \in RTasks :
         (t.op = "bootstrap" /\ (FsAdminsWrite(t) \/ SqlAddAdmins(t)))
         => /\ mls_groups'.owner_pubkey = t.author
            /\ t.author \in mls_groups'.admin_pubkeys
      ]_rostervars

\* C8: the handler of a kind-450 event for an existing group records as
\* is_owner whether the author is the owner when it asks; when that was not so
\* and the author is not in the admin set when it asks, the event is rejected
\* as unauthorized in that step, the handler ends, and the log, the group's
\* owner and its admins are unchanged.
C8_UnauthorizedRejected ==
    [][\A t \in RTasks :
         /\ RpIsOwner(t) =>
              BagIn([t EXCEPT !.pc = "is_admin",
                              !.is_owner = (mls_groups.exists
                                            /\ mls_groups.owner_pubkey = t.author)], rtasks')
         /\ \A seq \in Seqs \cup {NoSeq} :
              (/\ RpIsAdmin(t, seq)
               /\ ~t.is_owner
               /\ t.author \notin mls_groups.admin_pubkeys)
              => /\ rlast' = [op |-> t.op, result |-> "unauthorized"]
                 /\ BagCardinality(rtasks') = BagCardinality(rtasks) - 1
                 /\ UNCHANGED <<roster_policy, mls_groups, persisted, applied>>
      ]_rostervars

\* A bootstrap for an existing group has just been rejected as unauthorized.
C8_Witness ==
    /\ rlast = [op |-> "bootstrap", result |-> "unauthorized"]
    /\ mls_groups.exists

\* C9: when the handler (and, in the Firestore store_roster_policy, the store)
\* reads the last stored sequence and the event's seq is less than or equal to
\* it, the event is rejected in that step, the handler ends, and the log, the
\* group's owner and its admins are unchanged.
C9_StaleRejected ==
    [][\A t \in RTasks :
         (/\ RpLastSeq(t) \/ RpStoreCheck(t)
          /\ roster_policy # {}
          /\ \E d \in roster_policy : t.seq <= d.sequence)
         => /\ rlast' = [op |-> t.op,
                         result |-> IF t.pc = "last_seq" THEN "stale" ELSE "invalid_sequence"]
            /\ BagCardinality(rtasks') = BagCardinality(rtasks) - 1
            /\ UNCHANGED <<roster_policy, mls_groups, persisted, applied>>
      ]_rostervars

\* After seq 2 was accepted, a demote that does not carry a greater seq has
\* just been rejected as stale.
C9_Witness ==
    /\ rlast = [op |-> "demote", result |-> "stale"]
    /\ get_last_roster_sequence = 2

\* C24: once the group's record exists its owner never changes, whatever
\* roster events and group messages are handled, one after the other or at
\* once.
C24_OwnerNeverChanges ==
    [][mls_groups.exists
         => /\ mls_groups'.exists
            /\ mls_groups'.owner_pubkey = mls_groups.owner_pubkey
      ]_rostervars

\* C25: the upsert_group of the kind-445 handler leaves the group's admin set
\* as it is, also when a promote or a demote is being applied to the group at
\* the same time.
C25_GroupMessageKeepsAdmins ==
    [][\A t \in RTasks :
         (t.kind = "message" /\ (FsUpsertWrite(t) \/ SqlUpsertGroup(t)))
         => mls_groups'.admin_pubkeys = mls_groups.admin_pubkeys
      ]_rostervars

\* C26: the step that brings the group's record into existence is the
\* upsert_group of an accepted roster bootstrap event, and of nothing else.
C26_OnlyBootstrapCreates ==
    [][(~mls_groups.exists /\ mls_groups'.exists)
         => \E t \in RTasks :
               /\ t.kind = "roster" /\ t.op = "bootstrap"
               /\ (FsUpsertWrite(t) \/ SqlUpsertGroup(t))
      ]_rostervars

\* C27: the apply of an accepted roster event changes the admin set exactly
\* as its operation says. The write of a promote with role=admin and members
\* leaves the admins of before together with the listed members, and loses
\* none; the write of a demote leaves the admins of before without the listed
\* members, and adds none; the upsert of an add or a replace, and the apply of
\* a remove or of a promote or demote without role=admin or without members,
\* leave the admin set as it is.
C27_ApplyChangesAdminsExactly ==
    [][\A t \in {u \in RTasks : u.kind = "roster"} :
         /\ (SqlAddAdmins(t) /\ t.op = "promote")
            => mls_groups'.admin_pubkeys = mls_groups.admin_pubkeys \cup t.members
         /\ (SqlRemoveAdmins(t) /\ t.op = "demote")
            => mls_groups'.admin_pubkeys = mls_groups.admin_pubkeys \ t.members
         /\ (FsAdminsWrite(t) /\ t.op = "promote")
            => mls_groups.admin_pubkeys \subseteq mls_groups'.admin_pubkeys
         /\ (FsAdminsWrite(t) /\ t.op = "demote")
            => mls_groups'.admin_pubkeys \subseteq mls_groups.admin_pubkeys
         /\ ((FsUpsertWrite(t) \/ SqlUpsertGroup(t)) /\ t.op \in {"add", "replace"})
            => mls_groups'.admin_pubkeys = mls_groups.admin_pubkeys
         /\ \A role_admin \in BOOLEAN, members \in SUBSET Pubkeys :
               (RpInsert(t, role_admin, members)
                  /\ ApplyStarts(t.op, role_admin, members) = "done")
               => mls_groups'.admin_pubkeys = mls_groups.admin_pubkeys
      ]_rostervars

\* ======================================================================
\* The NIP-KR rotation store (InMemoryStore, one Mutex) and the tasks that the
\* service-request (40910) and service-ack (40911) handlers spawn.

\* --------------------------------------------------------------- bounds (KR)
NumClients == 2         \* values of the client tag
NumRotations == 2       \* values of the action tag
MaxVersions == 2        \* version ids drawn in a behaviour
MaxKrTasks == 2         \* store tasks alive at the same time
MaxQuorumAcks == 2      \* quorum_acks saturates here (u32::MAX in the code)

QuorumRequired == 1     \* 1, // quorum_required (dev default)

\* A missing tag, a missing map entry (Option::None).
NoTag == 0
NoVersion == 0

Clients == 1..NumClients
RotationIds == 1..NumRotations

\* SecretVersionRecord (client_id, version_id, state); the hash, the key
\* reference and the times are not read by the store.
SecretVersionRecord(client, version, state) ==
    [client_id |-> client, version_id |-> version, state |-> state]

\* RotationRecord
RotationRecord(rid, client, new, old) ==
    [action_id |-> rid, client_id |-> client, new_version |-> new, old_version |-> old,
     quorum_required |-> QuorumRequired, quorum_acks |-> 0, outcome |-> "None"]

\* g.versions.insert((client_id, version_id), rec): the entry of the key is replaced
VersionsInsert(vs, rec) ==
    {v \in vs : ~(v.client_id = rec.client_id /\ v.version_id = rec.version_id)} \cup {rec}

\* g.versions.get_mut(&(client_id, version)) { rec.state = state }: no entry, no change
VersionsSetState(vs, client, version, state) ==
    {IF v.client_id = client /\ v.version_id = version
     THEN [v EXCEPT !.state = state] ELSE v : v \in vs}

\* g.rotations.insert(rotation_id, rot): the entry of the key is replaced
RotationsInsert(rs, rot) == {r \in rs : r.action_id # rot.action_id} \cup {rot}

\* g.rotations.get(rotation_id)
RotationsGet(rid) == {r \in rotations : r.action_id = rid}

\* quorum_acks.saturating_add(1)
SaturatingAdd(acks) == IF acks < MaxQuorumAcks THEN acks + 1 ELSE MaxQuorumAcks

KrTask(kind, client, rid, version) ==
    [kind |-> kind, client_id |-> client, rotation_id |-> rid, version_id |-> version]

KrFree == BagCardinality(ktasks) < MaxKrTasks

KrTasks == BagToSet(ktasks)

KrRunning(kind) == {t \in KrTasks : t.kind = kind}

KrStarts(t) == ktasks' = ktasks (+) SetToBag({t})

KrGoes(t, u) == ktasks' = (ktasks (-) SetToBag({t})) (+) SetToBag({u})

KrEnds(t) == ktasks' = ktasks (-) SetToBag({t})

\* ------------------------------------------- 40910: handle_service_request
\* The handler routes on service == "rotation" and profile == "nip-kr/0.1.0";
\* prepare_rotation_local needs the client tag and the HMAC key of the
\* environment and draws the version id; then the store task is spawned.
HandleServiceRequest(routed, has_key, client, rid) ==
    /\ KrFree
    /\ next_version <= MaxVersions
    /\ IF routed /\ client # NoTag /\ has_key
       THEN /\ KrStarts(KrTask("prepare", client, rid, next_version))
            /\ next_version' = next_version + 1
       ELSE UNCHANGED <<ktasks, next_version>>
    /\ UNCHANGED <<versions, rotations, current_version, previous_version>>
    /\ UNCHANGED <<kpvars, rostervars, archivevars, dispatchvars, ratevars, purevars>>

\* The spawned task: if let (Some(cid), Some(rid)) { store.prepare_rotation(..) }
PrepareRotation(t) ==
    /\ t \in KrRunning("prepare")
    /\ IF t.rotation_id = NoTag
       THEN UNCHANGED <<versions, rotations>>
       ELSE /\ versions' = VersionsInsert(versions,
                   SecretVersionRecord(t.client_id, t.version_id, "Pending"))
            /\ rotations' = RotationsInsert(rotations,
                   RotationRecord(t.rotation_id, t.client_id, t.version_id,
                                  current_version[t.client_id]))
    /\ KrEnds(t)
    /\ UNCHANGED <<current_version, previous_version, next_version>>
    /\ UNCHANGED <<kpvars, rostervars, archivevars, dispatchvars, ratevars, purevars>>

\* ----------------------------------------------- 40911: handle_service_ack
\* The handler routes likewise and spawns the task that records the ack and
\* promotes.
HandleServiceAck(routed, client, rid) ==
    /\ KrFree
    /\ IF routed THEN KrStarts(KrTask("record_ack", client, rid, NoVersion))
       ELSE UNCHANGED ktasks
    /\ UNCHANGED <<versions, rotations, current_version, previous_version, next_version>>
    /\ UNCHANGED <<kpvars, rostervars, archivevars, dispatchvars, ratevars, purevars>>

\* if let (Some(rid), Some(cid)) { store.record_ack(&rid) ... }
RecordAck(t) ==
    /\ t \in KrRunning("record_ack")
    /\ IF t.rotation_id = NoTag \/ t.client_id = NoTag
       THEN KrEnds(t) /\ UNCHANGED rotations
       ELSE /\ rotations' = {IF r.action_id = t.rotation_id
                             THEN [r EXCEPT !.quorum_acks = SaturatingAdd(@)]
                             ELSE r : r \in rotations}
            /\ KrGoes(t, [t EXCEPT !.kind = "promote"])
    /\ UNCHANGED <<versions, current_version, previous_version, next_version>>
    /\ UNCHANGED <<kpvars, rostervars, archivevars, dispatchvars, ratevars, purevars>>

\* store.promote_rotation(&cid, &rid), cid being the client tag of the ack
PromoteRotation(t) ==
    /\ t \in KrRunning("promote")
    /\ IF RotationsGet(t.rotation_id) = {}
       THEN UNCHANGED <<versions, rotations, current_version, previous_version>>
       ELSE LET new == (CHOOSE r \in RotationsGet(t.rotation_id) : TRUE).new_version
                cur == current_version[t.client_id]
                graced == IF cur # NoVersion
                          THEN VersionsSetState(versions, t.client_id, cur, "Grace")
                          ELSE versions
            IN /\ previous_version' = IF cur # NoVersion
                                      THEN [previous_version EXCEPT ![t.client_id] = cur]
                                      ELSE previous_version
               /\ current_version' = [current_version EXCEPT ![t.client_id] = new]
               /\ versions' = VersionsSetState(graced, t.client_id, new, "Current")
               /\ rotations' = {IF r.action_id = t.rotation_id
                                THEN [r EXCEPT !.outcome = "Promoted"]
                                ELSE r : r \in rotations}
    /\ KrEnds(t)
    /\ UNCHANGED next_version
    /\ UNCHANGED <<kpvars, rostervars, archivevars, dispatchvars, ratevars, purevars>>

NextKr ==
    \/ \E routed \in BOOLEAN, has_key \in BOOLEAN, c \in Clients \cup {NoTag},
          r \in RotationIds \cup {NoTag} : HandleServiceRequest(routed, has_key, c, r)
    \/ \E t \in KrTasks : PrepareRotation(t)
    \/ \E routed \in BOOLEAN, c \in Clients \cup {NoTag}, r \in RotationIds \cup {NoTag} :
          HandleServiceAck(routed, c, r)
    \/ \E t \in KrTasks : RecordAck(t)
    \/ \E t \in KrTasks : PromoteRotation(t)

\* --------------------------------------------- properties of the rotation side

\* C10: for every client for whom a promotion has been performed (the client
\* has a current_version entry: only promote_rotation writes one), exactly one
\* of the client's versions is in state Current, and the version that was
\* current right before the promotion (the previous_version entry, if any) is
\* in state Grace.
C10_OneCurrentPreviousGrace ==
    \A c \in Clients :
       current_version[c] # NoVersion =>
          /\ Cardinality({v \in versions : v.client_id = c /\ v.state = "Current"}) = 1
          /\ previous_version[c] # NoVersion =>
                \E v \in versions : /\ v.client_id = c
                                    /\ v.version_id = previous_version[c]
                                    /\ v.state = "Grace"

\* C11: when the store task of a rotation request (client c, rotation r,
\* prepared version v) and the task of a service-ack for r with the same client
\* tag are both spawned, then eventually rotation r has outcome Promoted for v,
\* v is c's current version and its record is in state Current.
C11_AckEventuallyPromotes ==
    \A c \in Clients, r \in RotationIds, v \in 1..MaxVersions :
       (/\ BagIn(KrTask("prepare", c, r, v), ktasks)
        /\ BagIn(KrTask("record_ack", c, r, NoVersion), ktasks))
       ~> (/\ \E rot \in rotations : /\ rot.action_id = r
                                     /\ rot.new_version = v
                                     /\ rot.outcome = "Promoted"
           /\ current_version[c] = v
           /\ \E ver \in versions : /\ ver.client_id = c
                                    /\ ver.version_id = v
                                    /\ ver.state = "Current")

\* C12: a rotation whose outcome is Promoted has quorum_acks >= quorum_required
\* (the acks only grow while the record lives, so this is what "promoted only
\* with the quorum reached" leaves behind in every state).
C12_PromotedOnlyWithQuorum ==
    \A rot \in rotations :
       rot.outcome = "Promoted" => rot.quorum_acks >= rot.quorum_required

\* ======================================================================
\* upsert_group on the group's whole document, one call at a time: what a call
\* keeps and what it overwrites.

\* ---------------------------------------------------------- bounds (registry)
MaxEpoch == 2           \* k tags run 0..MaxEpoch

NoEpoch == 0 - 1

\* The group's document: none, or one the gateway or the operator's tooling
\* (display_name, service_member) wrote.
NoDoc ==
    [exists |-> FALSE, display_name |-> None, owner_pubkey |-> NoOwner,
     last_epoch |-> NoEpoch, admin_pubkeys |-> {}, created_at |-> 0]

GroupDocs ==
    [exists : {TRUE}, display_name : {None, "name"}, owner_pubkey : Pubkeys,
     last_epoch : {NoEpoch} \cup (0..MaxEpoch), admin_pubkeys : SUBSET Pubkeys,
     created_at : {0}]

\* SqlStorage::upsert_group(group_id, display_name, creator_pubkey, last_epoch:
\* Option<i64>): INSERT ... ON CONFLICT DO UPDATE SET display_name =
\* COALESCE(EXCLUDED.display_name, display_name), last_epoch =
\* COALESCE(EXCLUDED.last_epoch, last_epoch). FirestoreStorage::upsert_group
\* (last_epoch: i64) builds the same document: display_name.or(existing),
\* Some(last_epoch).or(existing).
StorageUpsertGroup(doc, display_name, creator, last_epoch) ==
    IF doc.exists
    THEN [doc EXCEPT !.display_name = IF display_name # None THEN display_name ELSE @,
                     !.last_epoch = IF last_epoch # NoEpoch THEN last_epoch ELSE @]
    ELSE [exists |-> TRUE, display_name |-> display_name, owner_pubkey |-> creator,
          last_epoch |-> last_epoch, admin_pubkeys |-> {}, created_at |-> now]

\* StorageBackend::upsert_group(group_id, display_name, creator_pubkey, epoch:
\* u64): both backends are called with the epoch present (Some(epoch as i64),
\* epoch as i64).
upsert_group(doc, display_name, creator, epoch) ==
    StorageUpsertGroup(doc, display_name, creator, epoch)

\* handle_mls_group_message_static: the k tag, if any, and
\* store.upsert_group(group_id, None, author, epoch.unwrap_or(0) as u64)
GroupMessageUpsert(author, k) ==
    /\ group_doc' = upsert_group(group_doc, None, author, IF k = NoEpoch THEN 0 ELSE k)
    /\ UNCHANGED <<backend, mls_groups, roster_policy, rtasks, rlast, persisted, applied>>
    /\ UNCHANGED <<kpvars, archivevars, krvars, dispatchvars, ratevars, purevars>>

\* handle_roster_policy, the apply of bootstrap, add and replace:
\* store.upsert_group(&group_id, None, &event_pubkey, 0)
RosterUpsert(author) ==
    /\ group_doc' = upsert_group(group_doc, None, author, 0)
    /\ UNCHANGED <<backend, mls_groups, roster_policy, rtasks, rlast, persisted, applied>>
    /\ UNCHANGED <<kpvars, archivevars, krvars, dispatchvars, ratevars, purevars>>

NextUpsert ==
    \/ Tick
    \/ \E a \in Pubkeys, k \in {NoEpoch} \cup (0..MaxEpoch) : GroupMessageUpsert(a, k)
    \/ \E a \in Pubkeys : RosterUpsert(a)

\* C28: upsert_group on an existing group keeps the stored owner, created_at,
\* admin set and display_name, and keeps the stored last_epoch when the caller
\* has no new one: the upsert of a kind-445 message without a k tag, and the
\* upsert of a roster bootstrap, add or replace, leave last_epoch as it is.
C28_UpsertPreserves ==
    [][\A a \in Pubkeys :
         /\ \A k \in {NoEpoch} \cup (0..MaxEpoch) :
               (GroupMessageUpsert(a, k) /\ group_doc.exists)
               => /\ group_doc'.owner_pubkey = group_doc.owner_pubkey
                  /\ group_doc'.created_at = group_doc.created_at
                  /\ group_doc'.admin_pubkeys = group_doc.admin_pubkeys
                  /\ group_doc'.display_name = group_doc.display_name
                  /\ (k = NoEpoch => group_doc'.last_epoch = group_doc.last_epoch)
         /\ (RosterUpsert(a) /\ group_doc.exists)
               => /\ group_doc'.owner_pubkey = group_doc.owner_pubkey
                  /\ group_doc'.created_at = group_doc.created_at
                  /\ group_doc'.admin_pubkeys = group_doc.admin_pubkeys
                  /\ group_doc'.display_name = group_doc.display_name
                  /\ group_doc'.last_epoch = group_doc.last_epoch
      ]_rostervars

\* ======================================================================
\* The message archive (message_archive.rs): archive_event and the two
\* catch-up queries over the archived_events collection.

\* ----------------------------------------------------------- bounds (archive)
NumArchEvents == 2      \* event ids 1..NumArchEvents
ArchiveTtl == 1         \* ttl_days, in clock units
MaxLimit == 2           \* limit runs 1..MaxLimit

NoGroupId == 0 - 1

\* event.tags(): p tags name pubkeys, h tags name groups; a tag may lack its
\* value.
TagLists ==
    { << >>,
      << <<"p">> >>,
      << <<"e", 1>> >>,
      << <<"p", 1>> >>,
      << <<"p", 1>>, <<"p", 2>> >>,
      << <<"h">> >>,
      << <<"h", 1>> >>,
      << <<"h", 2>>, <<"h", 1>> >>,
      << <<"p", 2>>, <<"h", 1>> >> }

\* filter(|tag| tag.len() >= 2 && tag[0] == "p").map(|tag| tag[1].clone())
ExtractRecipients(tags) ==
    LET IsP(tag) == Len(tag) >= 2 /\ tag[1] = "p"
        ps == SelectSeq(tags, IsP)
    IN  [i \in 1..Len(ps) |-> ps[i][2]]

\* find(|tag| tag.len() >= 2 && tag[0] == "h").map(|tag| tag[1].clone())
ExtractGroupId(tags) ==
    LET hs == {j \in DOMAIN tags : Len(tags[j]) >= 2 /\ tags[j][1] = "h"}
    IN  IF hs = {} THEN NoGroupId
        ELSE tags[CHOOSE j \in hs : \A i \in hs : j <= i][2]

SkipArchiveEither(recipients, group_id) ==
    recipients = << >> \/ group_id = NoGroupId

\* if recipients.is_empty() && group_id.is_none() { return Ok(()) }
SkipArchive(recipients, group_id) ==
    recipients = << >> /\ group_id = NoGroupId

\* The ArchivedEvent archive_event builds, as to_firestore_document writes it:
\* the group_id field only when there is one. kind, content, pubkey, sig,
\* group_epoch and archived_at are carried along and read by no query.
ArchivedEvent(id, created_at, tags) ==
    [id |-> id, created_at |-> created_at, tags |-> tags,
     recipients |-> ExtractRecipients(tags), group_id |-> ExtractGroupId(tags),
     expires_at |-> now + ArchiveTtl]

ANoReturn == [call |-> None, args |-> << >>, result |-> None, events |-> << >>]

\* archive_event(event, ttl_days): PATCH of the document "{kind}-{id}". The id
\* is the hash of the event, so one id names one created_at and one tag list.
ArchiveEvent(id, created_at, tags) ==
    /\ \A d \in archived_events :
          d.id = id => d.created_at = created_at /\ d.tags = tags
    /\ IF SkipArchive(ExtractRecipients(tags), ExtractGroupId(tags))
       THEN /\ archived_events' = archived_events
            /\ alast' = [call |-> "archive_event", args |-> <<id, created_at, tags>>,
                         result |-> "skipped", events |-> << >>]
       ELSE /\ archived_events' = {d \in archived_events : d.id # id}
                                  \cup {ArchivedEvent(id, created_at, tags)}
            /\ alast' = [call |-> "archive_event", args |-> <<id, created_at, tags>>,
                         result |-> "archived", events |-> << >>]
    /\ UNCHANGED <<kpvars, rostervars, krvars, dispatchvars, ratevars, purevars>>

GreaterThanOrEqual(a, b) == a >= b

\* "op": "GREATER_THAN"
GreaterThan(a, b) == a > b

\* runQuery: orderBy created_at ASCENDING, limit; then each document through
\* from_firestore_fields and archived_event_to_nostr_event, which keeps id,
\* tags and created_at of the fields the queries read.
RunQuery(matches, limit) ==
    LET n == Cardinality(matches)
        ordered == {q \in [1..n -> matches] :
                      \A i, j \in 1..n :
                         i < j => q[i] # q[j] /\ q[i].created_at <= q[j].created_at}
        m == IF limit < n THEN limit ELSE n
    IN  {[i \in 1..m |-> [id |-> q[i].id, created_at |-> q[i].created_at,
                          tags |-> q[i].tags]] : q \in ordered}

\* get_missed_messages(pubkey, since, limit): recipients ARRAY_CONTAINS pubkey,
\* created_at GREATER_THAN since, expires_at GREATER_THAN now
GetMissedMessages(pubkey, since, limit) ==
    /\ \E r \in RunQuery({d \in archived_events :
                            /\ \E i \in DOMAIN d.recipients : d.recipients[i] = pubkey
                            /\ GreaterThan(d.created_at, since)
                            /\ GreaterThan(d.expires_at, now)}, limit) :
          alast' = [call |-> "get_missed_messages", args |-> <<pubkey, since, limit>>,
                    result |-> "ok", events |-> r]
    /\ UNCHANGED <<archived_events, kpvars, rostervars, krvars, dispatchvars, ratevars, purevars>>

\* get_group_messages(group_id, since, limit): group_id EQUAL group_id,
\* created_at GREATER_THAN since, expires_at GREATER_THAN now
GetGroupMessages(group_id, since, limit) ==
    /\ \E r \in RunQuery({d \in archived_events :
                            /\ d.group_id = group_id
                            /\ GreaterThan(d.created_at, since)
                            /\ GreaterThan(d.expires_at, now)}, limit) :
          alast' = [call |-> "get_group_messages", args |-> <<group_id, since, limit>>,
                    result |-> "ok", events |-> r]
    /\ UNCHANGED <<archived_events, kpvars, rostervars, krvars, dispatchvars, ratevars, purevars>>

NextArchive ==
    \/ Tick
    \/ \E id \in 1..NumArchEvents, created_at \in 0..MaxTime, tags \in TagLists :
          ArchiveEvent(id, created_at, tags)
    \/ \E pubkey \in 1..2, since \in (0 - 1)..MaxTime, limit \in 1..MaxLimit :
          GetMissedMessages(pubkey, since, limit)
    \/ \E group_id \in 1..2, since \in (0 - 1)..MaxTime, limit \in 1..MaxLimit :
          GetGroupMessages(group_id, since, limit)

\* C29: archive_event stores the event exactly when it has a p tag or an h tag
\* (with a value); with neither the archive is left as it was, and no archived
\* document is without both recipients and group.
C29_ArchivedIffAddressed ==
    [][(alast' # alast /\ alast'.call = "archive_event")
       => LET id == alast'.args[1]
              created_at == alast'.args[2]
              tags == alast'.args[3]
              addressed == \E i \in DOMAIN tags :
                              Len(tags[i]) >= 2 /\ tags[i][1] \in {"p", "h"}
          IN  /\ addressed
                 => /\ \E d \in archived_events' :
                          /\ d.id = id /\ d.created_at = created_at /\ d.tags = tags
                          /\ d.expires_at = now + ArchiveTtl
                    /\ alast'.result = "archived"
              /\ ~addressed
                 => /\ archived_events' = archived_events
                    /\ alast'.result = "skipped"
              /\ \A d \in archived_events' :
                    \E i \in DOMAIN d.tags :
                       Len(d.tags[i]) >= 2 /\ d.tags[i][1] \in {"p", "h"}
      ]_archivevars

\* A kind-445 event with an h tag and no p tag is archived, next to one with a
\* p tag only.
C29_Witness ==
    /\ alast.call = "archive_event"
    /\ alast.result = "archived"
    /\ alast.args[3] = << <<"h", 1>> >>
    /\ \E d \in archived_events : d.recipients = << >> /\ d.group_id = 1
    /\ \E d \in archived_events : d.recipients = <<1>> /\ d.group_id = NoGroupId

\* C30: both queries return only archived events that match the key (pubkey
\* among the recipients, or the group id), with created_at > since and
\* expires_at > now, each once, in ascending created_at order, at most limit of
\* them, and all of them when no more than limit match.
C30_QueriesReturnMatches ==
    [][(alast' # alast /\ alast'.call \in {"get_missed_messages", "get_group_messages"})
       => LET key == alast'.args[1]
              since == alast'.args[2]
              limit == alast'.args[3]
              r == alast'.events
              keyed(d) == IF alast'.call = "get_missed_messages"
                          THEN \E i \in DOMAIN d.tags :
                                  /\ Len(d.tags[i]) >= 2
                                  /\ d.tags[i][1] = "p" /\ d.tags[i][2] = key
                          ELSE d.group_id = key
              matches == {d \in archived_events :
                            keyed(d) /\ d.created_at > since /\ d.expires_at > now}
          IN  /\ \A i \in DOMAIN r :
                    \E d \in matches : d.id = r[i].id /\ d.created_at = r[i].created_at
              /\ \A i, j \in DOMAIN r :
                    i < j => r[i].id # r[j].id /\ r[i].created_at <= r[j].created_at
              /\ Len(r) <= limit
              /\ Cardinality(matches) <= limit => Len(r) = Cardinality(matches)
      ]_archivevars

\* Group 1 holds an event created at 0 and one created at 1, both unexpired;
\* get_group_messages(1, since = 0, limit = 2) returns the second alone.
C30_Witness ==
    /\ alast.call = "get_group_messages"
    /\ alast.args = <<1, 0, 2>>
    /\ Len(alast.events) = 1
    /\ alast.events[1].created_at = 1
    /\ \E d \in archived_events :
          d.group_id = 1 /\ d.created_at = 0 /\ d.expires_at > now
    /\ \E d \in archived_events :
          d.group_id = 1 /\ d.created_at = 1 /\ d.expires_at > now

\* ======================================================================
\* Extension::message of the gateway (mod.rs) behind Extensions::call_message
\* (relay/src/extension.rs): what happens to an EVENT message by kind.

\* ---------------------------------------------------------- bounds (dispatch)
MaxCounted == 9         \* the dropped-444 counter is followed up to here

\* ------------------------------------------------------- constants (program)
KEYPACKAGE_KIND == 443
WELCOME_KIND == 444
MLS_GROUP_MESSAGE_KIND == 445
NOISE_DM_KIND == 446
ROSTER_POLICY_KIND == 450
KEYPACKAGE_RELAYS_LIST_KIND == 10051
GIFTWRAP_KIND == 1059

\* kind 1 stands for every kind the gateway has no arm for
EventKinds ==
    {1, KEYPACKAGE_KIND, WELCOME_KIND, MLS_GROUP_MESSAGE_KIND, NOISE_DM_KIND,
     ROSTER_POLICY_KIND, KEYPACKAGE_RELAYS_LIST_KIND, GIFTWRAP_KIND}

MNoReturn == [kind |-> 0, spawned |-> None, result |-> None]

\* The arm of the match on event.kind(): the handler it spawns, if any. The
\* arms that need the store return early, spawning nothing, when self.store()
\* fails; the arms for 444 and for every other kind spawn nothing.
Spawned(kind, has_store) ==
    CASE kind = KEYPACKAGE_KIND ->
            IF has_store THEN "handle_keypackage" ELSE None
      [] kind = GIFTWRAP_KIND -> "archive_giftwrap"
      [] kind = MLS_GROUP_MESSAGE_KIND ->
            IF has_store THEN "handle_mls_group_message_static" ELSE None
      [] kind = NOISE_DM_KIND -> "archive_noise_dm"
      [] kind = KEYPACKAGE_RELAYS_LIST_KIND ->
            IF has_store THEN "handle_keypackage_relays_list" ELSE None
      [] kind = ROSTER_POLICY_KIND ->
            IF has_store THEN "handle_roster_policy" ELSE None
      [] OTHER -> None

\* Every path of MlsGateway::message ends in ExtensionMessageResult::Continue(msg):
\* the early returns and the last line, which the 444 arm falls through to.
MessageResult(kind) == "Continue"

\* Extensions::call_message: a Continue of one extension goes on to the next
\* and, after the last, is what the server takes over; Stop and Ignore end it.
\* The other extension of this relay (nip_service) returns Continue as well.
CallMessage(result) == result

\* One EVENT message through call_message and MlsGateway::message.
Message(kind, has_store) ==
    /\ kind = WELCOME_KIND => top_level_444_dropped < MaxCounted
    /\ top_level_444_dropped' =
          IF kind = WELCOME_KIND THEN top_level_444_dropped + 1
          ELSE top_level_444_dropped
    /\ mlast' = [kind |-> kind, spawned |-> Spawned(kind, has_store),
                 result |-> CallMessage(MessageResult(kind))]
    /\ UNCHANGED <<kpvars, rostervars, archivevars, krvars, ratevars, purevars>>

NextDispatch ==
    \E kind \in EventKinds, has_store \in BOOLEAN : Message(kind, has_store)

\* C31: a top-level kind-444 event is counted and is not handed on: the result
\* of call_message for it is never Continue, the one result after which the
\* server stores and delivers the event.
C31_TopLevelWelcomeDropped ==
    [][mlast'.kind = WELCOME_KIND
       => /\ mlast'.result # "Continue"
          /\ top_level_444_dropped' = top_level_444_dropped + 1
      ]_dispatchvars

\* ======================================================================
\* KeyPackageRateLimiter (keypackage_consumer.rs): check_rate_limit reads the
\* clock, waits for the write lock of the queries map, and does the rest
\* under the lock.

\* -------------------------------------------------------------- bounds (rate)
MaxQueriesPerHour == 2  \* max_queries_per_hour (new() sets 10)
MinutesPerHour == 2     \* minutes in chrono::Duration::hours(1), the 60 of the hint
TicksPerMinute == 2     \* clock ticks in a minute
MaxRlTime == 5          \* the limiter's clock runs 0..MaxRlTime
MaxRlCalls == 2         \* calls waiting for the lock at the same time

NoMinutes == 0 - 1

HourTicks == MinutesPerHour * TicksPerMinute

\* (requester, author): "alice" asking for "bob" and for "carol"
RlPairs == {<<1, 1>>, <<1, 2>>}

QNoReturn == [pair |-> <<0, 0>>, now |-> 0, ok |-> TRUE, minutes |-> NoMinutes]

\* Duration::num_minutes(): whole minutes, the fraction dropped
num_minutes(ticks) == ticks \div TicksPerMinute

\* query_list.retain(|&t| t > hour_ago)
Retained(query_list, hour_ago) ==
    LET Kept(t) == t > hour_ago
    IN  SelectSeq(query_list, Kept)

\* if query_list.len() >= self.max_queries_per_hour as usize
LimitReached(len) == len >= MaxQueriesPerHour

\* 60 - query_list[0].signed_duration_since(hour_ago).num_minutes()
MinutesUntilReset(query_list, hour_ago) ==
    MinutesPerHour - num_minutes(query_list[1] - hour_ago)

\* check_rate_limit(requester, author), up to the await of the lock:
\* let now = Utc::now(); let hour_ago = ...; self.queries.write().await
CheckRateLimit(requester, author) ==
    /\ BagCardinality(rl_calls) < MaxRlCalls
    /\ rl_calls' = rl_calls (+) SetToBag({[pair |-> <<requester, author>>, now |-> rl_now]})
    /\ UNCHANGED <<rl_now, queries, admitted, qlast>>
    /\ UNCHANGED <<kpvars, rostervars, archivevars, krvars, dispatchvars, purevars>>

\* check_rate_limit with the lock held, to its return: entry, retain, the
\* limit check, push. The now and hour_ago are the ones read before the wait.
CrlLocked(c) ==
    LET key == c.pair
        hour_ago == c.now - HourTicks
        query_list == Retained(queries[key], hour_ago)
    IN  /\ c \in BagToSet(rl_calls)
        /\ rl_calls' = rl_calls (-) SetToBag({c})
        /\ IF LimitReached(Len(query_list))
           THEN /\ queries' = [queries EXCEPT ![key] = query_list]
                /\ qlast' = [pair |-> key, now |-> c.now, ok |-> FALSE,
                             minutes |-> MinutesUntilReset(query_list, hour_ago)]
                /\ UNCHANGED admitted
           ELSE /\ queries' = [queries EXCEPT ![key] = Append(query_list, c.now)]
                /\ qlast' = [pair |-> key, now |-> c.now, ok |-> TRUE,
                             minutes |-> NoMinutes]
                /\ admitted' = [admitted EXCEPT ![key] = Append(@, c.now)]
        /\ UNCHANGED rl_now
        /\ UNCHANGED <<kpvars, rostervars, archivevars, krvars, dispatchvars, purevars>>

\* Time passes for the limiter.
RlTick ==
    /\ rl_now < MaxRlTime
    /\ rl_now' = rl_now + 1
    /\ UNCHANGED <<rl_calls, queries, admitted, qlast>>
    /\ UNCHANGED <<kpvars, rostervars, archivevars, krvars, dispatchvars, purevars>>

RlCalls == [pair : RlPairs, now : 0..MaxRlTime]

NextRate ==
    \/ RlTick
    \/ \E p \in RlPairs : CheckRateLimit(p[1], p[2])
    \/ \E c \in RlCalls : CrlLocked(c)

\* C32: per (requester, author) pair, no window of one hour (T - hour, T] holds
\* more than max_queries_per_hour admitted queries, a query being made at the
\* time it reads; a query is denied when the pair already has that many
\* admitted in the hour up to it; and a call for one pair leaves every other
\* pair's list and history as they were.
C32_AtMostMaxPerWindow ==
    [][/\ \A p \in RlPairs, T \in 0..MaxRlTime :
             Cardinality({i \in DOMAIN admitted'[p] :
                            admitted'[p][i] > T - HourTicks /\ admitted'[p][i] <= T})
                <= MaxQueriesPerHour
       /\ \A c \in RlCalls :
             CrlLocked(c)
             => /\ Cardinality({i \in DOMAIN admitted[c.pair] :
                                   /\ admitted[c.pair][i] > c.now - HourTicks
                                   /\ admitted[c.pair][i] <= c.now})
                      >= MaxQueriesPerHour
                   => ~qlast'.ok
                /\ \A q \in RlPairs \ {c.pair} :
                      queries'[q] = queries[q] /\ admitted'[q] = admitted[q]
      ]_ratevars

\* C33: the minutes carried by a denial are the minutes until the oldest
\* counted query of the pair leaves the window (rounded down or up to whole
\* minutes), when a query of the pair is admitted again.
C33_HintIsTimeUntilReset ==
    [][\A c \in RlCalls :
          (CrlLocked(c) /\ ~qlast'.ok)
          => LET counted == {queries'[c.pair][i] : i \in DOMAIN queries'[c.pair]}
                 oldest == CHOOSE t \in counted : \A u \in counted : t <= u
                 left == oldest + HourTicks - c.now
             IN  qlast'.minutes \in {left \div TicksPerMinute,
                                     (left + TicksPerMinute - 1) \div TicksPerMinute}
      ]_ratevars

\* ======================================================================
\* The NIP-KR MAC (nip_service/profiles/kr.rs): canonical_input and
\* hmac_sign_base64url over two triples under one key.

\* --------------------------------------------------------------- bounds (MAC)
MaxStrLen == 2          \* client_id, version_id, secret: 0..MaxStrLen bytes

\* as_bytes() of the strings of the model; bytes 0 and 1 are also the bytes
\* the length prefixes of short strings are made of
ByteStrings == UNION {[1..n -> {0, 1}] : n \in 0..MaxStrLen}

MacTriples == [client_id : ByteStrings, version_id : ByteStrings, secret : ByteStrings]

MacKeys == {<<1>>, <<2>>}

\* (n as u32).to_be_bytes(); a length of the model is far below 2^32, where
\* the cast would wrap
be32(n) ==
    <<(n \div 16777216) % 256, (n \div 65536) % 256, (n \div 256) % 256, n % 256>>

canonical_input_plain(client_id, version_id, secret) ==
    client_id \o version_id \o secret

\* [be32(c.len()), c, be32(v.len()), v, be32(s.len()), s].concat()
canonical_input(client_id, version_id, secret) ==
    be32(Len(client_id)) \o client_id \o be32(Len(version_id)) \o version_id
        \o be32(Len(secret)) \o secret

\* HMAC-SHA-256 of data under key, base64url: a function of key and data, kept
\* as the term of its two arguments (nothing else enters mac.update and
\* finalize)
hmac_sign_base64url(key, data) == [key |-> key, data |-> data]

MacIdle ==
    [pc |-> "idle", key |-> << >>, a |-> << >>, b |-> << >>, ca |-> << >>, cb |-> << >>,
     ha |-> << >>, ha2 |-> << >>, hb |-> << >>]

\* let canonical = canonical_input(client_id, &version_id, &secret_b64), for
\* each of the two triples
CanonicalInput ==
    /\ mac.pc = "start"
    /\ mac' = [mac EXCEPT !.pc = "canonical",
                 !.ca = canonical_input(mac.a.client_id, mac.a.version_id, mac.a.secret),
                 !.cb = canonical_input(mac.b.client_id, mac.b.version_id, mac.b.secret)]
    /\ UNCHANGED enc
    /\ UNCHANGED <<kpvars, rostervars, archivevars, krvars, dispatchvars, ratevars>>

\* let secret_hash = hmac_sign_base64url(&dev_key, &canonical): the first
\* triple signed twice, the second once
HmacSign ==
    /\ mac.pc = "canonical"
    /\ mac' = [mac EXCEPT !.pc = "signed",
                 !.ha = hmac_sign_base64url(mac.key, mac.ca),
                 !.ha2 = hmac_sign_base64url(mac.key, mac.ca),
                 !.hb = hmac_sign_base64url(mac.key, mac.cb)]
    /\ UNCHANGED enc
    /\ UNCHANGED <<kpvars, rostervars, archivevars, krvars, dispatchvars, ratevars>>

NextMac == CanonicalInput \/ HmacSign

\* C34: under one key the tag of a triple is the same every time it is
\* computed, equal triples have equal tags, and the canonical input is the
\* three length-prefixed components in order, so that two triples have the
\* same canonical input only when they are the same triple.
C34_CanonicalInputInjective ==
    mac.pc = "signed"
    => /\ mac.ha = mac.ha2
       /\ mac.a = mac.b => mac.ha = mac.hb
       /\ mac.ca = mac.cb => mac.a = mac.b
       /\ LET c == mac.a.client_id
              v == mac.a.version_id
              s == mac.a.secret
              Be(q, i) == q[i] * 16777216 + q[i + 1] * 65536 + q[i + 2] * 256 + q[i + 3]
          IN  /\ Len(mac.ca) = 12 + Len(c) + Len(v) + Len(s)
              /\ Be(mac.ca, 1) = Len(c)
              /\ SubSeq(mac.ca, 5, 4 + Len(c)) = c
              /\ Be(mac.ca, 5 + Len(c)) = Len(v)
              /\ SubSeq(mac.ca, 9 + Len(c), 8 + Len(c) + Len(v)) = v
              /\ Be(mac.ca, 9 + Len(c) + Len(v)) = Len(s)
              /\ SubSeq(mac.ca, 13 + Len(c) + Len(v), Len(mac.ca)) = s

\* Two different triples whose components, put end to end, are the same
\* bytes, have been given different canonical inputs and tags.
C34_Witness ==
    /\ mac.pc = "signed"
    /\ mac.a # mac.b
    /\ mac.a.client_id \o mac.a.version_id \o mac.a.secret
          = mac.b.client_id \o mac.b.version_id \o mac.b.secret
    /\ mac.ca # mac.cb
    /\ mac.ha # mac.hb

\* ======================================================================
\* Keypackage content (keypackage_encoding.rs, handle_keypackage): from the
\* bytes a client encodes, through the event content and the stored content,
\* to the hex that is emitted. A string is the sequence of its characters; a
\* character of the base64 alphabets is its index in the standard alphabet
\* (A-Z 0..25, a-z 26..51, 0-9 52..61, + 62, / 63), then - 64, _ 65, = 66.

\* ------------------------------------------------------------- bounds (codec)
MaxBytes == 3           \* payloads of 1..MaxBytes bytes

\* 0xfb and 0xff bring + and / (- and _) into the base64 text
PayloadBytes == {0, 72, 251, 255}

Payloads == UNION {[1..n -> PayloadBytes] : n \in 1..MaxBytes}

EncErr == [ok |-> FALSE, val |-> << >>]

EncOk(val) == [ok |-> TRUE, val |-> val]

\* hex::encode: two lowercase digits a byte
encode_hex(bytes) ==
    LET HexChar(d) == IF d < 10 THEN 52 + d ELSE 26 + (d - 10)
    IN  [i \in 1..(2 * Len(bytes)) |->
            IF i % 2 = 1 THEN HexChar(bytes[(i + 1) \div 2] \div 16)
            ELSE HexChar(bytes[i \div 2] % 16)]

\* char::is_ascii_hexdigit: 0-9, a-f, A-F
is_ascii_hexdigit(ch) == ch \in (52..61) \cup (26..31) \cup (0..5)

\* hex::decode: an even number of hex digits, either case
decode_hex(s) ==
    LET HexVal(ch) == IF ch >= 52 THEN ch - 52
                      ELSE IF ch >= 26 THEN ch - 26 + 10 ELSE ch + 10
    IN  IF Len(s) % 2 = 0 /\ \A i \in DOMAIN s : is_ascii_hexdigit(s[i])
        THEN EncOk([k \in 1..(Len(s) \div 2) |->
                       HexVal(s[2 * k - 1]) * 16 + HexVal(s[2 * k])])
        ELSE EncErr

\* STANDARD.encode: six bits a character, padded with = to a multiple of four
encode_canonical_base64(bytes) ==
    LET m == Len(bytes)
        n == (8 * m + 5) \div 6
        At(i) == IF i <= m THEN bytes[i] ELSE 0
        Sextet(j) == LET i == (6 * j) \div 8 + 1
                         off == (6 * j) % 8
                     IN  ((At(i) * 256 + At(i + 1)) \div 2 ^ (10 - off)) % 64
    IN  [j \in 1..(4 * ((n + 3) \div 4)) |-> IF j <= n THEN Sextet(j - 1) ELSE 66]

\* Engine::decode of STANDARD, STANDARD_NO_PAD, URL_SAFE, URL_SAFE_NO_PAD: the
\* alphabet, padding required and canonical or not allowed, no trailing bits
DecodeBase64(s, url_safe, padded) ==
    LET pads == IF Len(s) >= 2 /\ s[Len(s)] = 66 /\ s[Len(s) - 1] = 66 THEN 2
                ELSE IF Len(s) >= 1 /\ s[Len(s)] = 66 THEN 1 ELSE 0
        n == Len(s) - pads
        InAlphabet(ch) == ch \in 0..61 \/ (IF url_safe THEN ch \in {64, 65}
                                           ELSE ch \in {62, 63})
        Val(i) == IF i > n THEN 0 ELSE IF s[i] >= 64 THEN s[i] - 2 ELSE s[i]
        m == (6 * n) \div 8
        Byte(k) == LET i == (8 * k) \div 6 + 1
                       off == (8 * k) % 6
                   IN  ((Val(i) * 64 + Val(i + 1)) \div 2 ^ (4 - off)) % 256
    IN  IF /\ \A i \in 1..n : InAlphabet(s[i])
           /\ n % 4 # 1
           /\ IF padded THEN (n + pads) % 4 = 0 ELSE pads = 0
           /\ n % 4 = 2 => Val(n) % 16 = 0
           /\ n % 4 = 3 => Val(n) % 4 = 0
        THEN EncOk([k \in 1..m |-> Byte(k - 1)])
        ELSE EncErr

\* decode_base64_flexible: the four engines in order, the first that decodes
decode_base64_flexible(s) ==
    IF DecodeBase64(s, FALSE, TRUE).ok THEN DecodeBase64(s, FALSE, TRUE)
    ELSE IF DecodeBase64(s, FALSE, FALSE).ok THEN DecodeBase64(s, FALSE, FALSE)
    ELSE IF DecodeBase64(s, TRUE, TRUE).ok THEN DecodeBase64(s, TRUE, TRUE)
    ELSE DecodeBase64(s, TRUE, FALSE)

\* hex_from_firestore_content over bytes_from_firestore_content: empty fails,
\* base64 first, hex if that fails; then encode_hex. (The strings of the model
\* hold no whitespace, so trim() returns them as they are.)
hex_from_firestore_content(content) ==
    LET bytes == IF content = << >> THEN EncErr
                 ELSE IF decode_base64_flexible(content).ok
                      THEN decode_base64_flexible(content)
                      ELSE decode_hex(content)
    IN  IF bytes.ok THEN EncOk(encode_hex(bytes.val)) ELSE EncErr

EncIdle ==
    [pc |-> "idle", bytes |-> << >>, declared |-> None, content |-> << >>,
     stored |-> << >>, emitted |-> EncErr]

\* The event a client sends for a payload: hex with no encoding tag, or
\* standard padded base64 with encoding=base64.
EncStarts ==
    {[pc |-> "event", bytes |-> b, declared |-> d,
      content |-> IF d = "hex" THEN encode_hex(b) ELSE encode_canonical_base64(b),
      stored |-> << >>, emitted |-> EncErr] : b \in Payloads, d \in {"hex", "base64"}}

\* handle_keypackage, the content: is_hex = non-empty, even length, all hex
\* digits, else Err("Invalid keypackage content format"); store_keypackage is
\* handed the content as it came.
HkContent ==
    /\ enc.pc = "event"
    /\ LET content == enc.content
           is_hex == /\ content # << >>
                     /\ Len(content) % 2 = 0
                     /\ \A i \in DOMAIN content : is_ascii_hexdigit(content[i])
       IN  enc' = IF is_hex THEN [enc EXCEPT !.pc = "stored", !.stored = content]
                  ELSE [enc EXCEPT !.pc = "rejected"]
    /\ UNCHANGED mac
    /\ UNCHANGED <<kpvars, rostervars, archivevars, krvars, dispatchvars, ratevars>>

\* The stored content read back and emitted as hex.
HexEmit ==
    /\ enc.pc = "stored"
    /\ enc' = [enc EXCEPT !.pc = "emitted",
                          !.emitted = hex_from_firestore_content(enc.stored)]
    /\ UNCHANGED mac
    /\ UNCHANGED <<kpvars, rostervars, archivevars, krvars, dispatchvars, ratevars>>

NextCodec == HkContent \/ HexEmit

\* C35: a payload sent as hex, or as base64, is ingested, stored as canonical
\* padded base64, and comes back from the store as the hex of the same bytes.
C35_ContentRoundTrip ==
    /\ enc.pc # "rejected"
    /\ enc.pc \in {"stored", "emitted"} => enc.stored = encode_canonical_base64(enc.bytes)
    /\ enc.pc = "emitted" => enc.emitted = EncOk(encode_hex(enc.bytes))

\* ------------------------------- the rotation side: acks and repeated requests

\* The rotation record that promote_rotation finds for the task's action tag.
AckedRotations(t) == RotationsGet(t.rotation_id)

\* What belongs to a client in the store: its pointer to the current version
\* and the states of its versions.
ClientVersions(vs, cv, client) ==
    [current |-> cv[client], states |-> {v \in vs : v.client_id = client}]

\* C38: the promotion that a service-ack leads to changes the current version
\* and the version states of no client but the one the acknowledged rotation
\* belongs to; when the ack's client tag names another client than the
\* rotation's client_id, it changes no client's and does not make the
\* rotation Promoted.
C38_AckTouchesOwnerOnly ==
    [][\A t \in KrRunning("promote") : \A rot \in AckedRotations(t) :
          PromoteRotation(t) =>
             /\ \A c \in Clients \ {rot.client_id} :
                   ClientVersions(versions', current_version', c)
                      = ClientVersions(versions, current_version, c)
             /\ t.client_id # rot.client_id =>
                   /\ \A c \in Clients :
                         ClientVersions(versions', current_version', c)
                            = ClientVersions(versions, current_version, c)
                   /\ \A r \in rotations' :
                         r.action_id = rot.action_id =>
                            (r.outcome = "Promoted" => rot.outcome = "Promoted")
      ]_krvars

\* C39: when rotations R1 and then R2 of a client have been promoted and R2's
\* version is the client's current version, the promotion that a repeated
\* service-ack for R1 leads to leaves the client's current version as it is.
C39_RepeatedAckKeepsCurrent ==
    [][\A t \in KrRunning("promote") : \A r1 \in AckedRotations(t), r2 \in rotations :
          (/\ PromoteRotation(t)
           /\ r1.client_id = t.client_id /\ r2.client_id = t.client_id
           /\ r1.outcome = "Promoted" /\ r2.outcome = "Promoted"
           /\ r1.new_version < r2.new_version
           /\ current_version[t.client_id] = r2.new_version)
          => current_version'[t.client_id] = current_version[t.client_id]
      ]_krvars

\* C40: a rotation whose outcome is Promoted stays so, with its acks: no step,
\* and so no store task of a further service-request with the same action_id,
\* (handle_service_request and handle_service_request_payload spawn the same
\* prepare_rotation call) takes its outcome back to None or its quorum_acks
\* to 0.
C40_PromotedStaysPromoted ==
    [][\A rot \in rotations :
          rot.outcome = "Promoted" =>
             \E r \in rotations' : /\ r.action_id = rot.action_id
                                   /\ r.outcome = "Promoted"
                                   /\ r.quorum_acks >= rot.quorum_acks
      ]_krvars

\* ======================================================================
\* Each side is explored on its own, the others at rest.

InitKP ==
    /\ now = 0
    /\ mls_keypackages = {}
    /\ mls_pending_deletions = {}
    /\ tasks = EmptyBag
    /\ last = NoReturn
    /\ ever_stored = {}
    /\ max_keypackages_per_user = MaxKeypackagesPerUser
    /\ backend = "firestore"
    /\ mls_groups = NoGroup
    /\ roster_policy = {}
    /\ rtasks = EmptyBag
    /\ rlast = RNoReturn
    /\ persisted = << >>
    /\ applied = << >>
    /\ group_doc = NoDoc
    /\ archived_events = {}
    /\ alast = ANoReturn
    /\ versions = {}
    /\ rotations = {}
    /\ current_version = [c \in Clients |-> NoVersion]
    /\ previous_version = [c \in Clients |-> NoVersion]
    /\ ktasks = EmptyBag
    /\ next_version = 1
    /\ top_level_444_dropped = 0
    /\ mlast = MNoReturn
    /\ rl_now = 0
    /\ rl_calls = EmptyBag
    /\ queries = [p \in RlPairs |-> << >>]
    /\ admitted = [p \in RlPairs |-> << >>]
    /\ qlast = QNoReturn
    /\ mac = MacIdle
    /\ enc = EncIdle

InitKPHeld ==
    /\ now = 0
    /\ mls_keypackages = {KeyPackageDoc(HeldId, 0, KeypackageTtl)}
    /\ mls_pending_deletions = {}
    /\ tasks = EmptyBag
    /\ last = NoReturn
    /\ ever_stored = {HeldId}
    /\ max_keypackages_per_user = MaxKeypackagesPerUser
    /\ backend = "firestore"
    /\ mls_groups = NoGroup
    /\ roster_policy = {}
    /\ rtasks = EmptyBag
    /\ rlast = RNoReturn
    /\ persisted = << >>
    /\ applied = << >>
    /\ group_doc = NoDoc
    /\ archived_events = {}
    /\ alast = ANoReturn
    /\ versions = {}
    /\ rotations = {}
    /\ current_version = [c \in Clients |-> NoVersion]
    /\ previous_version = [c \in Clients |-> NoVersion]
    /\ ktasks = EmptyBag
    /\ next_version = 1
    /\ top_level_444_dropped = 0
    /\ mlast = MNoReturn
    /\ rl_now = 0
    /\ rl_calls = EmptyBag
    /\ queries = [p \in RlPairs |-> << >>]
    /\ admitted = [p \in RlPairs |-> << >>]
    /\ qlast = QNoReturn
    /\ mac = MacIdle
    /\ enc = EncIdle

\* The gateway configured with max_keypackages_per_user = 2; the owner holds
\* one keypackage.
InitKPQuota ==
    /\ now = 0
    /\ mls_keypackages = {KeyPackageDoc(HeldId, 0, KeypackageTtl)}
    /\ mls_pending_deletions = {}
    /\ tasks = EmptyBag
    /\ last = NoReturn
    /\ ever_stored = {HeldId}
    /\ max_keypackages_per_user = SmallQuota
    /\ backend = "firestore"
    /\ mls_groups = NoGroup
    /\ roster_policy = {}
    /\ rtasks = EmptyBag
    /\ rlast = RNoReturn
    /\ persisted = << >>
    /\ applied = << >>
    /\ group_doc = NoDoc
    /\ archived_events = {}
    /\ alast = ANoReturn
    /\ versions = {}
    /\ rotations = {}
    /\ current_version = [c \in Clients |-> NoVersion]
    /\ previous_version = [c \in Clients |-> NoVersion]
    /\ ktasks = EmptyBag
    /\ next_version = 1
    /\ top_level_444_dropped = 0
    /\ mlast = MNoReturn
    /\ rl_now = 0
    /\ rl_calls = EmptyBag
    /\ queries = [p \in RlPairs |-> << >>]
    /\ admitted = [p \in RlPairs |-> << >>]
    /\ qlast = QNoReturn
    /\ mac = MacIdle
    /\ enc = EncIdle

InitRoster ==
    /\ now = 0
    /\ mls_keypackages = {}
    /\ mls_pending_deletions = {}
    /\ tasks = EmptyBag
    /\ last = NoReturn
    /\ ever_stored = {}
    /\ max_keypackages_per_user = MaxKeypackagesPerUser
    /\ backend \in Backends
    /\ mls_groups = NoGroup
    /\ roster_policy = {}
    /\ rtasks = EmptyBag
    /\ rlast = RNoReturn
    /\ persisted = << >>
    /\ applied = << >>
    /\ group_doc = NoDoc
    /\ archived_events = {}
    /\ alast = ANoReturn
    /\ versions = {}
    /\ rotations = {}
    /\ current_version = [c \in Clients |-> NoVersion]
    /\ previous_version = [c \in Clients |-> NoVersion]
    /\ ktasks = EmptyBag
    /\ next_version = 1
    /\ top_level_444_dropped = 0
    /\ mlast = MNoReturn
    /\ rl_now = 0
    /\ rl_calls = EmptyBag
    /\ queries = [p \in RlPairs |-> << >>]
    /\ admitted = [p \in RlPairs |-> << >>]
    /\ qlast = QNoReturn
    /\ mac = MacIdle
    /\ enc = EncIdle

InitUpsert ==
    /\ now = 0
    /\ mls_keypackages = {}
    /\ mls_pending_deletions = {}
    /\ tasks = EmptyBag
    /\ last = NoReturn
    /\ ever_stored = {}
    /\ max_keypackages_per_user = MaxKeypackagesPerUser
    /\ backend \in Backends
    /\ mls_groups = NoGroup
    /\ roster_policy = {}
    /\ rtasks = EmptyBag
    /\ rlast = RNoReturn
    /\ persisted = << >>
    /\ applied = << >>
    /\ group_doc \in GroupDocs \cup {NoDoc}
    /\ archived_events = {}
    /\ alast = ANoReturn
    /\ versions = {}
    /\ rotations = {}
    /\ current_version = [c \in Clients |-> NoVersion]
    /\ previous_version = [c \in Clients |-> NoVersion]
    /\ ktasks = EmptyBag
    /\ next_version = 1
    /\ top_level_444_dropped = 0
    /\ mlast = MNoReturn
    /\ rl_now = 0
    /\ rl_calls = EmptyBag
    /\ queries = [p \in RlPairs |-> << >>]
    /\ admitted = [p \in RlPairs |-> << >>]
    /\ qlast = QNoReturn
    /\ mac = MacIdle
    /\ enc = EncIdle

InitKr ==
    /\ now = 0
    /\ mls_keypackages = {}
    /\ mls_pending_deletions = {}
    /\ tasks = EmptyBag
    /\ last = NoReturn
    /\ ever_stored = {}
    /\ max_keypackages_per_user = MaxKeypackagesPerUser
    /\ backend = "firestore"
    /\ mls_groups = NoGroup
    /\ roster_policy = {}
    /\ rtasks = EmptyBag
    /\ rlast = RNoReturn
    /\ persisted = << >>
    /\ applied = << >>
    /\ group_doc = NoDoc
    /\ archived_events = {}
    /\ alast = ANoReturn
    /\ versions = {}
    /\ rotations = {}
    /\ current_version = [c \in Clients |-> NoVersion]
    /\ previous_version = [c \in Clients |-> NoVersion]
    /\ ktasks = EmptyBag
    /\ next_version = 1
    /\ top_level_444_dropped = 0
    /\ mlast = MNoReturn
    /\ rl_now = 0
    /\ rl_calls = EmptyBag
    /\ queries = [p \in RlPairs |-> << >>]
    /\ admitted = [p \in RlPairs |-> << >>]
    /\ qlast = QNoReturn
    /\ mac = MacIdle
    /\ enc = EncIdle

SpecKP == InitKP /\ [][NextKP]_vars

SpecKPHeld == InitKPHeld /\ [][NextKP]_vars

SpecKPQuota == InitKPQuota /\ [][NextKP]_vars

InitDeliver ==
    /\ now = 0
    /\ mls_keypackages \in HeldStores
    /\ mls_pending_deletions = {}
    /\ tasks = EmptyBag
    /\ last = NoReturn
    /\ ever_stored = {d.event_id : d \in mls_keypackages}
    /\ max_keypackages_per_user = MaxKeypackagesPerUser
    /\ backend = "firestore"
    /\ mls_groups = NoGroup
    /\ roster_policy = {}
    /\ rtasks = EmptyBag
    /\ rlast = RNoReturn
    /\ persisted = << >>
    /\ applied = << >>
    /\ group_doc = NoDoc
    /\ archived_events = {}
    /\ alast = ANoReturn
    /\ versions = {}
    /\ rotations = {}
    /\ current_version = [c \in Clients |-> NoVersion]
    /\ previous_version = [c \in Clients |-> NoVersion]
    /\ ktasks = EmptyBag
    /\ next_version = 1
    /\ top_level_444_dropped = 0
    /\ mlast = MNoReturn
    /\ rl_now = 0
    /\ rl_calls = EmptyBag
    /\ queries = [p \in RlPairs |-> << >>]
    /\ admitted = [p \in RlPairs |-> << >>]
    /\ qlast = QNoReturn
    /\ mac = MacIdle
    /\ enc = EncIdle

SpecKPReq == InitKP /\ [][NextKPReq]_vars

SpecDeliver == InitDeliver /\ [][NextDeliver]_vars

\* Time passes, and the runtime polls every spawned timer task: the sleep
\* ends and each awaited store call of process_pending_deletion returns.
SpecKPFair ==
    /\ InitKP
    /\ [][NextKP]_vars
    /\ WF_vars(Tick)
    /\ WF_vars(\E t \in Tasks : PpdGet(t))
    /\ WF_vars(\E t \in Tasks : PpdCount(t))
    /\ WF_vars(\E t \in Tasks : PpdExists(t))
    /\ WF_vars(\E t \in Tasks : PpdDelete(t))
    /\ WF_vars(\E t \in Tasks : PpdDeletePending(t))

SpecRoster == InitRoster /\ [][NextRoster]_vars

SpecUpsert == InitUpsert /\ [][NextUpsert]_vars

SpecKr == InitKr /\ [][NextKr]_vars

\* The runtime runs every spawned task to its end, whatever else is spawned;
\* nothing makes a client send another event.
KrTaskValues ==
    [kind : {"prepare", "record_ack", "promote"}, client_id : Clients \cup {NoTag},
     rotation_id : RotationIds \cup {NoTag}, version_id : (1..MaxVersions) \cup {NoVersion}]

SpecKrFair ==
    /\ InitKr
    /\ [][NextKr]_vars
    /\ \A t \in KrTaskValues :
          WF_vars(PrepareRotation(t) \/ RecordAck(t) \/ PromoteRotation(t))

InitArchive ==
    /\ now = 0
    /\ mls_keypackages = {}
    /\ mls_pending_deletions = {}
    /\ tasks = EmptyBag
    /\ last = NoReturn
    /\ ever_stored = {}
    /\ max_keypackages_per_user = MaxKeypackagesPerUser
    /\ backend = "firestore"
    /\ mls_groups = NoGroup
    /\ roster_policy = {}
    /\ rtasks = EmptyBag
    /\ rlast = RNoReturn
    /\ persisted = << >>
    /\ applied = << >>
    /\ group_doc = NoDoc
    /\ archived_events = {}
    /\ alast = ANoReturn
    /\ versions = {}
    /\ rotations = {}
    /\ current_version = [c \in Clients |-> NoVersion]
    /\ previous_version = [c \in Clients |-> NoVersion]
    /\ ktasks = EmptyBag
    /\ next_version = 1
    /\ top_level_444_dropped = 0
    /\ mlast = MNoReturn
    /\ rl_now = 0
    /\ rl_calls = EmptyBag
    /\ queries = [p \in RlPairs |-> << >>]
    /\ admitted = [p \in RlPairs |-> << >>]
    /\ qlast = QNoReturn
    /\ mac = MacIdle
    /\ enc = EncIdle

SpecArchive == InitArchive /\ [][NextArchive]_vars

InitDispatch ==
    /\ now = 0
    /\ mls_keypackages = {}
    /\ mls_pending_deletions = {}
    /\ tasks = EmptyBag
    /\ last = NoReturn
    /\ ever_stored = {}
    /\ max_keypackages_per_user = MaxKeypackagesPerUser
    /\ backend = "firestore"
    /\ mls_groups = NoGroup
    /\ roster_policy = {}
    /\ rtasks = EmptyBag
    /\ rlast = RNoReturn
    /\ persisted = << >>
    /\ applied = << >>
    /\ group_doc = NoDoc
    /\ archived_events = {}
    /\ alast = ANoReturn
    /\ versions = {}
    /\ rotations = {}
    /\ current_version = [c \in Clients |-> NoVersion]
    /\ previous_version = [c \in Clients |-> NoVersion]
    /\ ktasks = EmptyBag
    /\ next_version = 1
    /\ top_level_444_dropped = 0
    /\ mlast = MNoReturn
    /\ rl_now = 0
    /\ rl_calls = EmptyBag
    /\ queries = [p \in RlPairs |-> << >>]
    /\ admitted = [p \in RlPairs |-> << >>]
    /\ qlast = QNoReturn
    /\ mac = MacIdle
    /\ enc = EncIdle

SpecDispatch == InitDispatch /\ [][NextDispatch]_vars

InitRate ==
    /\ now = 0
    /\ mls_keypackages = {}
    /\ mls_pending_deletions = {}
    /\ tasks = EmptyBag
    /\ last = NoReturn
    /\ ever_stored = {}
    /\ max_keypackages_per_user = MaxKeypackagesPerUser
    /\ backend = "firestore"
    /\ mls_groups = NoGroup
    /\ roster_policy = {}
    /\ rtasks = EmptyBag
    /\ rlast = RNoReturn
    /\ persisted = << >>
    /\ applied = << >>
    /\ group_doc = NoDoc
    /\ archived_events = {}
    /\ alast = ANoReturn
    /\ versions = {}
    /\ rotations = {}
    /\ current_version = [c \in Clients |-> NoVersion]
    /\ previous_version = [c \in Clients |-> NoVersion]
    /\ ktasks = EmptyBag
    /\ next_version = 1
    /\ top_level_444_dropped = 0
    /\ mlast = MNoReturn
    /\ rl_now = 0
    /\ rl_calls = EmptyBag
    /\ queries = [p \in RlPairs |-> << >>]
    /\ admitted = [p \in RlPairs |-> << >>]
    /\ qlast = QNoReturn
    /\ mac = MacIdle
    /\ enc = EncIdle

SpecRate == InitRate /\ [][NextRate]_vars

InitMac ==
    /\ now = 0
    /\ mls_keypackages = {}
    /\ mls_pending_deletions = {}
    /\ tasks = EmptyBag
    /\ last = NoReturn
    /\ ever_stored = {}
    /\ max_keypackages_per_user = MaxKeypackagesPerUser
    /\ backend = "firestore"
    /\ mls_groups = NoGroup
    /\ roster_policy = {}
    /\ rtasks = EmptyBag
    /\ rlast = RNoReturn
    /\ persisted = << >>
    /\ applied = << >>
    /\ group_doc = NoDoc
    /\ archived_events = {}
    /\ alast = ANoReturn
    /\ versions = {}
    /\ rotations = {}
    /\ current_version = [c \in Clients |-> NoVersion]
    /\ previous_version = [c \in Clients |-> NoVersion]
    /\ ktasks = EmptyBag
    /\ next_version = 1
    /\ top_level_444_dropped = 0
    /\ mlast = MNoReturn
    /\ rl_now = 0
    /\ rl_calls = EmptyBag
    /\ queries = [p \in RlPairs |-> << >>]
    /\ admitted = [p \in RlPairs |-> << >>]
    /\ qlast = QNoReturn
    /\ mac \in [pc : {"start"}, key : MacKeys, a : MacTriples, b : MacTriples,
                 ca : {<< >>}, cb : {<< >>}, ha : {<< >>}, ha2 : {<< >>}, hb : {<< >>}]
    /\ enc = EncIdle

SpecMac == InitMac /\ [][NextMac]_vars

InitCodec ==
    /\ now = 0
    /\ mls_keypackages = {}
    /\ mls_pending_deletions = {}
    /\ tasks = EmptyBag
    /\ last = NoReturn
    /\ ever_stored = {}
    /\ max_keypackages_per_user = MaxKeypackagesPerUser
    /\ backend = "firestore"
    /\ mls_groups = NoGroup
    /\ roster_policy = {}
    /\ rtasks = EmptyBag
    /\ rlast = RNoReturn
    /\ persisted = << >>
    /\ applied = << >>
    /\ group_doc = NoDoc
    /\ archived_events = {}
    /\ alast = ANoReturn
    /\ versions = {}
    /\ rotations = {}
    /\ current_version = [c \in Clients |-> NoVersion]
    /\ previous_version = [c \in Clients |-> NoVersion]
    /\ ktasks = EmptyBag
    /\ next_version = 1
    /\ top_level_444_dropped = 0
    /\ mlast = MNoReturn
    /\ rl_now = 0
    /\ rl_calls = EmptyBag
    /\ queries = [p \in RlPairs |-> << >>]
    /\ admitted = [p \in RlPairs |-> << >>]
    /\ qlast = QNoReturn
    /\ mac = MacIdle
    /\ enc \in EncStarts

SpecCodec == InitCodec /\ [][NextCodec]_vars

InitSweep ==
    /\ now = 0
    /\ mls_keypackages \in HeldStores
    /\ mls_pending_deletions = {}
    /\ tasks = EmptyBag
    /\ last = NoReturn
    /\ ever_stored = {d.event_id : d \in mls_keypackages}
    /\ max_keypackages_per_user = MaxKeypackagesPerUser
    /\ backend = "firestore"
    /\ mls_groups = NoGroup
    /\ roster_policy = {}
    /\ rtasks = EmptyBag
    /\ rlast = RNoReturn
    /\ persisted = << >>
    /\ applied = << >>
    /\ group_doc = NoDoc
    /\ archived_events = {}
    /\ alast = ANoReturn
    /\ versions = {}
    /\ rotations = {}
    /\ current_version = [c \in Clients |-> NoVersion]
    /\ previous_version = [c \in Clients |-> NoVersion]
    /\ ktasks = EmptyBag
    /\ next_version = 1
    /\ top_level_444_dropped = 0
    /\ mlast = MNoReturn
    /\ rl_now = 0
    /\ rl_calls = EmptyBag
    /\ queries = [p \in RlPairs |-> << >>]
    /\ admitted = [p \in RlPairs |-> << >>]
    /\ qlast = QNoReturn
    /\ mac = MacIdle
    /\ enc = EncIdle

SpecSweep == InitSweep /\ [][NextSweep]_vars

SpecTimerRace == InitKP /\ [][NextTimerRace]_vars

====
